---- MODULE Spec2Model ----
(***************************************************************************)
(* Tag reconciliation engine of the pdf-detection repository: mark         *)
(* extraction and canonicalization, type classification, colour            *)
(* assignment, and the cross-page matching loop with its aggregates.       *)
(* A Python str is a sequence of one-character strings.                    *)
(***************************************************************************)
EXTENDS Integers, Sequences, FiniteSets, TLC

VARIABLES
    text,        \* the string handed to a text function
    op,          \* which text function was applied to it ("none" before)
    marks_set,   \* the marks an extractor returned
    type_out,    \* the string mark_type returned
    queried,     \* the strings a highlight loop searches a page for
    types,           \* the list handed to the colour assigner
    builder,         \* which colour assigner runs: "app" or "mp"
    type_color_map,  \* the mapping it returned
    cpc,             \* "idle", "input" (list chosen) or "built" (map returned)
    prev_types,      \* the list of the previous call, when there was one
    prev_map,        \* the mapping the previous call returned
    calls,           \* the number of completed calls of the assigner
    impl,              \* the program that runs: "app1", "mp1", "app" or "app3"
    doc,               \* the uploaded PDF: a list of pages, a page a list of lines
    cells,             \* the Excel TAG column (app1, mp1) or the schedule cells (app, app3)
    all_tags,          \* the declared marks, in the order the loop visits them
    color_map,         \* the type_color_map of the run
    pc,                \* where the run is
    page_i,            \* the page the matching loop is on
    mark_i,            \* the mark the matching loop is on
    plan_mark_counts,  \* plan label -> mark -> count
    plan_type_counts,  \* plan label -> type -> count
    found_tags,        \* app1.py: the marks found on some page
    annots,            \* the highlight annotations added to the document
    missing_tags,      \* app1.py: the declared marks not found
    visited,           \* the (page, mark) pairs done, when the order is free
    ocr_impl,          \* the OCR normalizer that runs: "app5", "app3" or "app7"
    src_pages,         \* the pages of the PDF handed to the normalizer
    readable,          \* app3.py: the PDF has extractable text
    out_pages,         \* the pages of the normalized PDF
    submitted,         \* the pages handed to the OCR collaborator, in order
    failed,            \* the pages on which the OCR collaborator raised
    ocr_pc,            \* where the normalizer is
    ocr_i,             \* the page the normalizer is on
    tbl_impl,          \* the schedule extractor that runs: "mp" or "app"
    tbl_doc,           \* the pages handed to the schedule extractor
    tbl_pc,            \* where the schedule extractor is
    tbl_page,          \* the page it is on
    tbl_index,         \* the table of the page it is on, 0 before the first
    schedule_tables,   \* the table records emitted so far
    table_marks,       \* the marks declared by the tables so far
    ses_impl,          \* the session-gated front end: "app7" or "oh"
    uploaded_file,     \* the file in the uploader, NoFile without one
    session_state,     \* st.session_state
    shown,             \* what the last script run put on the page
    events,            \* the events of the session so far
    dd_impl,           \* the deduplication that runs: "app" or "app6"
    dd_rects,          \* the boxes the searches of the page returned
    dd_pc,             \* where the deduplication is
    dd_i,              \* the instance the loop of app6.py is on
    dd_keys,           \* app6.py highlighted_rects
    dd_annots,         \* the boxes annotated, in order
    dd_count,          \* the count recorded
    dd_prev,           \* the count of the run before
    dd_runs            \* the number of the run

textVars == <<text, op, marks_set, type_out, queried>>

colorVars == <<types, builder, type_color_map, cpc, prev_types, prev_map, calls>>

matchVars ==
    <<impl, doc, cells, all_tags, color_map, pc, page_i, mark_i,
      plan_mark_counts, plan_type_counts, found_tags, annots, missing_tags>>

ocrVars ==
    <<ocr_impl, src_pages, readable, out_pages, submitted, failed, ocr_pc,
      ocr_i>>

tableVars ==
    <<tbl_impl, tbl_doc, tbl_pc, tbl_page, tbl_index, schedule_tables,
      table_marks>>

sessionVars == <<ses_impl, uploaded_file, session_state, shown, events>>

dedupVars ==
    <<dd_impl, dd_rects, dd_pc, dd_i, dd_keys, dd_annots, dd_count, dd_prev,
      dd_runs>>

sideVars == <<ocrVars, tableVars, sessionVars, dedupVars>>

otherVars == <<visited, sideVars>>

vars == <<textVars, colorVars, matchVars, otherVars>>

\* the components beside the text functions, the colour assigner and the
\* sequential matching run are not part of this specification
OrderIdle == visited = {}

OcrIdle ==
    /\ ocr_impl = "none"
    /\ src_pages = <<>>
    /\ readable = FALSE
    /\ out_pages = <<>>
    /\ submitted = <<>>
    /\ failed = {}
    /\ ocr_pc = "idle"
    /\ ocr_i = 0

TableIdle ==
    /\ tbl_impl = "none"
    /\ tbl_doc = <<>>
    /\ tbl_pc = "idle"
    /\ tbl_page = 0
    /\ tbl_index = 0
    /\ schedule_tables = <<>>
    /\ table_marks = {}

SessionIdle ==
    /\ ses_impl = "none"
    /\ uploaded_file = <<>>
    /\ session_state = <<>>
    /\ shown = <<>>
    /\ events = <<>>

DedupIdle ==
    /\ dd_impl = "none"
    /\ dd_rects = <<>>
    /\ dd_pc = "idle"
    /\ dd_i = 0
    /\ dd_keys = {}
    /\ dd_annots = <<>>
    /\ dd_count = 0
    /\ dd_prev = 0
    /\ dd_runs = 0

SideIdle == OcrIdle /\ TableIdle /\ SessionIdle /\ DedupIdle

RestIdle == OrderIdle /\ SideIdle

\* the matching run is not part of this specification
MatchIdle ==
    /\ impl = "none"
    /\ doc = <<>>
    /\ cells = <<>>
    /\ all_tags = <<>>
    /\ color_map = <<>>
    /\ pc = "idle"
    /\ page_i = 0
    /\ mark_i = 0
    /\ plan_mark_counts = <<>>
    /\ plan_type_counts = <<>>
    /\ found_tags = {}
    /\ annots = {}
    /\ missing_tags = <<>>

-----------------------------------------------------------------------------
(* Characters and strings *)

UpperLetters ==
    {"A","B","C","D","E","F","G","H","I","J","K","L","M",
     "N","O","P","Q","R","S","T","U","V","W","X","Y","Z"}

LowerLetters ==
    {"a","b","c","d","e","f","g","h","i","j","k","l","m",
     "n","o","p","q","r","s","t","u","v","w","x","y","z"}

Digits == {"0","1","2","3","4","5","6","7","8","9"}

\* Python's \s on the characters the model uses
SpaceChars == {" ", "\t", "\n", "\r", "\f"}

Letters == UpperLetters \cup LowerLetters

IsSpace(c) == c \in SpaceChars

IsDigit(c) == c \in Digits

IsUpper(c) == c \in UpperLetters

IsLetter(c) == c \in Letters

\* Python's \w: letters, digits and the underscore
IsWord(c) == IsLetter(c) \/ IsDigit(c) \/ c = "_"

UpperPairs ==
    { <<"a","A">>, <<"b","B">>, <<"c","C">>, <<"d","D">>, <<"e","E">>,
      <<"f","F">>, <<"g","G">>, <<"h","H">>, <<"i","I">>, <<"j","J">>,
      <<"k","K">>, <<"l","L">>, <<"m","M">>, <<"n","N">>, <<"o","O">>,
      <<"p","P">>, <<"q","Q">>, <<"r","R">>, <<"s","S">>, <<"t","T">>,
      <<"u","U">>, <<"v","V">>, <<"w","W">>, <<"x","X">>, <<"y","Y">>,
      <<"z","Z">> }

UpperChar(c) ==
    IF c \in LowerLetters THEN (CHOOSE p \in UpperPairs : p[1] = c)[2] ELSE c

LowerChar(c) ==
    IF c \in UpperLetters THEN (CHOOSE p \in UpperPairs : p[2] = c)[1] ELSE c

RECURSIVE str_upper(_)
str_upper(s) ==
    IF s = <<>> THEN <<>> ELSE <<UpperChar(Head(s))>> \o str_upper(Tail(s))

RECURSIVE str_lower(_)
str_lower(s) ==
    IF s = <<>> THEN <<>> ELSE <<LowerChar(Head(s))>> \o str_lower(Tail(s))

\* s[a:b] of Python with 1-based a and exclusive b
Slice(s, a, b) == SubSeq(s, a, b - 1)

\* the index of the first c in s, 0 when there is none
RECURSIVE IndexOfFrom(_, _, _)
IndexOfFrom(s, c, i) ==
    IF i > Len(s) THEN 0
    ELSE IF s[i] = c THEN i
    ELSE IndexOfFrom(s, c, i + 1)

IndexOf(s, c) == IndexOfFrom(s, c, 1)

\* needle occurs in s starting at index i
OccursAt(s, needle, i) ==
    /\ i >= 1
    /\ i + Len(needle) - 1 <= Len(s)
    /\ \A j \in 1..Len(needle) : s[i + j - 1] = needle[j]

\* Python's "needle in s"
Contains(s, needle) == \E i \in 1..(Len(s) + 1) : OccursAt(s, needle, i)

\* s.replace(c, r) for a one-character c and a string r
RECURSIVE str_replace(_, _, _)
str_replace(s, c, r) ==
    IF s = <<>> THEN <<>>
    ELSE (IF Head(s) = c THEN r ELSE <<Head(s)>>) \o str_replace(Tail(s), c, r)

UpperSeq ==
    <<"A","B","C","D","E","F","G","H","I","J","K","L","M",
      "N","O","P","Q","R","S","T","U","V","W","X","Y","Z">>

LowerSeq ==
    <<"a","b","c","d","e","f","g","h","i","j","k","l","m",
      "n","o","p","q","r","s","t","u","v","w","x","y","z">>

DigitSeq == <<"0","1","2","3","4","5","6","7","8","9">>

\* the code points of the other characters the model uses
OtherCodes ==
    { <<"\t", 9>>, <<"\n", 10>>, <<"\f", 12>>, <<"\r", 13>>, <<" ", 32>>,
      <<"-", 45>>, <<".", 46>>, <<"/", 47>>, <<"_", 95>>, <<"~", 126>> }

\* ord(c)
CodePoint(c) ==
    IF c \in Digits THEN 47 + IndexOf(DigitSeq, c)
    ELSE IF c \in UpperLetters THEN 64 + IndexOf(UpperSeq, c)
    ELSE IF c \in LowerLetters THEN 96 + IndexOf(LowerSeq, c)
    ELSE (CHOOSE p \in OtherCodes : p[1] = c)[2]

\* a < b for Python strings: code points, left to right, a prefix first
RECURSIVE StrLess(_, _)
StrLess(a, b) ==
    IF b = <<>> THEN FALSE
    ELSE IF a = <<>> THEN TRUE
    ELSE IF Head(a) # Head(b) THEN CodePoint(Head(a)) < CodePoint(Head(b))
    ELSE StrLess(Tail(a), Tail(b))

\* sorted(S) for a set of strings
RECURSIVE Sorted(_)
Sorted(S) ==
    IF S = {} THEN <<>>
    ELSE LET least == CHOOSE x \in S : \A y \in S \ {x} : StrLess(x, y)
         IN  <<least>> \o Sorted(S \ {least})

\* lexicographic order on tuples of naturals
RECURSIVE LexGeq(_, _)
LexGeq(a, b) ==
    IF a = <<>> \/ b = <<>> THEN Len(a) >= Len(b)
    ELSE IF Head(a) # Head(b) THEN Head(a) > Head(b)
    ELSE LexGeq(Tail(a), Tail(b))

-----------------------------------------------------------------------------
(* The mark patterns.  Every pattern of the repository has the shape       *)
(*   [\b] [A-Z]{1,n} <separator> \d+ [\b]                                  *)
(* and is described by a record: wb (word boundaries at both ends), ic     *)
(* (re.IGNORECASE), maxLetters (n), ws (\s* allowed around the separator   *)
(* character), seps (the separator characters), spaceAlt (the alternative  *)
(* \s+ in place of a separator character).                                 *)

\* app1.py / mechanical_processor1.py: [A-Z]{1,4}-\d+
MARK_REGEX ==
    [wb |-> FALSE, ic |-> TRUE, maxLetters |-> 4, ws |-> FALSE,
     seps |-> {"-"}, spaceAlt |-> FALSE]

\* the app7.py pattern with the letter bound written as {1,5}
MARK_REGEX_app7_five ==
    [wb |-> TRUE, ic |-> TRUE, maxLetters |-> 5, ws |-> FALSE,
     seps |-> {"-"}, spaceAlt |-> FALSE]

\* app7.py: \b[A-Z]{1,4}-\d+\b
MARK_REGEX_app7 ==
    [wb |-> TRUE, ic |-> TRUE, maxLetters |-> 4, ws |-> FALSE,
     seps |-> {"-"}, spaceAlt |-> FALSE]

\* app3.py: [A-Z]{1,4}\s*-\s*\d+
MARK_REGEX_app3 ==
    [wb |-> FALSE, ic |-> TRUE, maxLetters |-> 4, ws |-> TRUE,
     seps |-> {"-"}, spaceAlt |-> FALSE]

\* app5.py: \b([A-Z]{1,4})\s*[-_]\s*(\d+)\b
MARK_REGEX_BROAD ==
    [wb |-> TRUE, ic |-> TRUE, maxLetters |-> 4, ws |-> TRUE,
     seps |-> {"-", "_"}, spaceAlt |-> FALSE]

\* app6.py: \b([A-Z]{1,4})(\s*[-_~]\s*|\s+)(\d+)\b
pattern_app6 ==
    [wb |-> TRUE, ic |-> TRUE, maxLetters |-> 4, ws |-> TRUE,
     seps |-> {"-", "_", "~"}, spaceAlt |-> TRUE]

ClassLetter(re) == IF re.ic THEN Letters ELSE UpperLetters

WordAt(s, p) == p >= 1 /\ p <= Len(s) /\ IsWord(s[p])

\* \b between s[p-1] and s[p]
Boundary(s, p) == WordAt(s, p - 1) # WordAt(s, p)

\* the n characters of s from index a on all belong to Class
AllIn(s, a, n, Class) ==
    /\ a + n - 1 <= Len(s)
    /\ \A j \in a..(a + n - 1) : s[j] \in Class

\* Every way the pattern matches s starting at index i: k letters, w1
\* white-space characters, sp separator characters (1, or 0 for the \s+
\* alternative), w2 white-space characters, d digits.
RegexCands(re, s, i) ==
    LET n == Len(s)
        Ks == {k \in 1..re.maxLetters : AllIn(s, i, k, ClassLetter(re))}
        W1s(k) == {w \in 0..(IF re.ws THEN n ELSE 0) : AllIn(s, i + k, w, SpaceChars)}
        Sps(k, w) ==
            {sp \in {0, 1} :
                IF sp = 1
                THEN i + k + w <= n /\ s[i + k + w] \in re.seps
                ELSE re.spaceAlt /\ w >= 1}
        W2s(k, w, sp) ==
            {v \in 0..(IF re.ws /\ sp = 1 THEN n ELSE 0) :
                AllIn(s, i + k + w + sp, v, SpaceChars)}
        Ds(k, w, sp, v) ==
            {d \in 1..n : AllIn(s, i + k + w + sp + v, d, Digits)}
    IN  { c \in UNION { UNION { UNION { UNION {
                { [k |-> k, w1 |-> w, sp |-> sp, w2 |-> v, d |-> d]
                    : d \in Ds(k, w, sp, v) }
                    : v \in W2s(k, w, sp) }
                    : sp \in Sps(k, w) }
                    : w \in W1s(k) } : k \in Ks } :
            re.wb => /\ Boundary(s, i)
                     /\ Boundary(s, i + c.k + c.w1 + c.sp + c.w2 + c.d) }

\* The match the backtracking engine reports: quantifiers are greedy and the
\* first alternative is tried first.
GreedyKey(c) == <<c.k, c.sp, c.w1, c.w2, c.d>>

\* the match at index i: [ok, start, stop (exclusive), g1 (letters), g2 (digits)]
NoMatch == [ok |-> FALSE, start |-> 0, stop |-> 0, g1 |-> <<>>, g2 |-> <<>>]

MatchAt(re, s, i) ==
    LET cands == RegexCands(re, s, i)
    IN  IF cands = {} THEN NoMatch
        ELSE LET c == CHOOSE x \in cands :
                        \A y \in cands : LexGeq(GreedyKey(x), GreedyKey(y))
                 stop == i + c.k + c.w1 + c.sp + c.w2 + c.d
             IN  [ok |-> TRUE, start |-> i, stop |-> stop,
                  g1 |-> Slice(s, i, i + c.k),
                  g2 |-> Slice(s, stop - c.d, stop)]

Group0(s, m) == Slice(s, m.start, m.stop)

\* re.search: the leftmost match at or after index i
RECURSIVE SearchFrom(_, _, _)
SearchFrom(re, s, i) ==
    IF i > Len(s) THEN NoMatch
    ELSE LET m == MatchAt(re, s, i)
         IN  IF m.ok THEN m ELSE SearchFrom(re, s, i + 1)

re_search(re, s) == SearchFrom(re, s, 1)

\* re.match: the match at the start of the string only
re_match(re, s) == MatchAt(re, s, 1)

\* re.finditer: the non-overlapping matches from left to right
RECURSIVE FindIterFrom(_, _, _)
FindIterFrom(re, s, i) ==
    LET m == SearchFrom(re, s, i)
    IN  IF ~m.ok THEN <<>> ELSE <<m>> \o FindIterFrom(re, s, m.stop)

re_finditer(re, s) == FindIterFrom(re, s, 1)

Range(f) == {f[i] : i \in DOMAIN f}

-----------------------------------------------------------------------------
(* Mark extraction *)

Hyphen == <<"-">>

\* extract_marks_robust keeping the matched text (m.group(0).upper()) instead
\* of rebuilding the tag from its two groups
extract_marks_robust_raw(s) ==
    {str_upper(Group0(s, m)) : m \in Range(re_finditer(MARK_REGEX_BROAD, s))}

\* app5.py extract_marks_robust, raw text scan: f"{tag_type.upper()}-{tag_num}"
extract_marks_robust(s) ==
    {str_upper(m.g1) \o Hyphen \o m.g2 : m \in Range(re_finditer(MARK_REGEX_BROAD, s))}

\* app7.py extract_marks_from_text: findall, m.upper()
extract_marks_from_text(s) ==
    {str_upper(Group0(s, m)) : m \in Range(re_finditer(MARK_REGEX_app7, s))}

\* app1.py / mechanical_processor1.py extract_schedules_and_marks on a page text
extract_marks_findall(s) ==
    {str_upper(Group0(s, m)) : m \in Range(re_finditer(MARK_REGEX, s))}

\* app3.py extract_schedules_and_marks on one cell:
\* m.group(0).upper().replace(" ", "")
extract_mark_cell_app3(s) ==
    LET m == re_search(MARK_REGEX_app3, s)
    IN  IF m.ok THEN {str_replace(str_upper(Group0(s, m)), " ", <<>>)} ELSE {}

\* app6.py ocr_and_highlight_aggressive: clean_tag of every match
extract_clean_tags_app6(s) ==
    {str_upper(m.g1) \o Hyphen \o m.g2 : m \in Range(re_finditer(pattern_app6, s))}

-----------------------------------------------------------------------------
(* Type classification *)

\* the longest prefix of s whose characters belong to Class, at most max long
RECURSIVE LeadingRun(_, _, _)
LeadingRun(s, Class, max) ==
    IF s = <<>> \/ max = 0 \/ Head(s) \notin Class THEN <<>>
    ELSE <<Head(s)>> \o LeadingRun(Tail(s), Class, max - 1)

\* mark.split("-")[0]
SplitHyphenFirst(s) ==
    IF IndexOf(s, "-") = 0 THEN s ELSE Slice(s, 1, IndexOf(s, "-"))

\* app.py mark_type: re.match(r'^([A-Z]{1,4})', mark, re.IGNORECASE)
mark_type_app(mark) ==
    LET m == LeadingRun(mark, Letters, 4)
    IN  IF m # <<>> THEN str_upper(m)
        ELSE IF IndexOf(mark, "-") # 0 THEN str_upper(SplitHyphenFirst(mark))
        ELSE str_upper(mark)

\* an unbounded run: [A-Z]+ takes every leading upper-case letter
LeadingUpper(mark) == LeadingRun(mark, UpperLetters, Len(mark))

\* mechanical_processor1.py mark_type: re.match(r"^[A-Z]+", mark)
mark_type_mp1(mark) ==
    IF mark = <<>> THEN <<>>
    ELSE IF LeadingUpper(mark) # <<>> THEN LeadingUpper(mark)
    ELSE mark

\* app1.py mark_type: the same without the empty-string guard
mark_type_app1(mark) ==
    IF LeadingUpper(mark) # <<>> THEN LeadingUpper(mark) ELSE mark

\* mechanical_processor.py mark_type
mark_type_mp(mark) ==
    IF mark = <<>> THEN <<>>
    ELSE IF LeadingUpper(mark) # <<>> THEN LeadingUpper(mark)
    ELSE IF IndexOf(mark, "-") # 0 THEN SplitHyphenFirst(mark)
    ELSE mark

\* app3.py / app5.py mark_type: mark.split('-')[0]
mark_type_app3(mark) == SplitHyphenFirst(mark)

-----------------------------------------------------------------------------
(* Colour assignment.  A colour is an RGB triple in hundredths. *)

\* app.py build_type_color_map: palette
palette ==
    << <<100, 0, 0>>, <<0, 0, 100>>, <<0, 60, 0>>, <<100, 50, 0>>,
       <<60, 0, 60>>, <<0, 70, 70>>, <<70, 70, 0>>, <<50, 30, 10>>,
       <<0, 0, 50>>, <<0, 50, 30>>, <<50, 50, 50>> >>

\* mechanical_processor.py LIGHT_PALETTE
LIGHT_PALETTE ==
    << <<75, 45, 45>>, <<45, 45, 75>>, <<45, 75, 45>>, <<75, 75, 45>>,
       <<75, 55, 35>>, <<65, 45, 75>>, <<35, 65, 65>>, <<75, 65, 45>>,
       <<45, 65, 75>>, <<45, 75, 55>> >>

\* {t: pal[i % len(pal)] for i, t in enumerate(ts)} for a list ts; a key
\* that occurs twice keeps its last value
EnumerateColors(ts, pal) ==
    [t \in Range(ts) |->
        LET last == CHOOSE i \in 1..Len(ts) :
                        ts[i] = t /\ \A j \in (i + 1)..Len(ts) : ts[j] # t
        IN  pal[((last - 1) % Len(pal)) + 1]]

\* the assigner enumerating the list as given, without sorted(set(...))
build_type_color_map_as_given(ts) == EnumerateColors(ts, palette)

\* app.py build_type_color_map: enumerate(sorted(set(types)))
build_type_color_map(ts) == EnumerateColors(Sorted(Range(ts)), palette)

\* the colour map of highlight_pdf_and_count with the index taken modulo
\* len(LIGHT_PALETTE) - 1
type_color_map_mp_short(marks) ==
    LET ts == Sorted({mark_type_mp(m) : m \in {x \in Range(marks) : x # <<>>}})
    IN  [t \in Range(ts) |->
            LIGHT_PALETTE[(((CHOOSE i \in 1..Len(ts) : ts[i] = t) - 1)
                              % (Len(LIGHT_PALETTE) - 1)) + 1]]

\* mechanical_processor.py highlight_pdf_and_count: types and type_color_map
type_color_map_mp(marks) ==
    EnumerateColors(
        Sorted({mark_type_mp(m) : m \in {x \in Range(marks) : x # <<>>}}),
        LIGHT_PALETTE)

(* Inputs of the colour assigner *)

NumTypes == 12

MaxListLen == 3

FirstLetters ==
    <<"F", "A", "E", "C", "V", "B", "U", "D", "P", "G", "H", "R", "M">>

SecondLetters == <<"U", "C", "H">>

\* the i-th type name: F, FU, FC, FH, A, AU, AC, AH, E, ...
TypeName(i) ==
    LET q == (i - 1) \div 4
        r == (i - 1) % 4
    IN  IF r = 0 THEN <<FirstLetters[q + 1]>>
        ELSE <<FirstLetters[q + 1], SecondLetters[r]>>

\* a set of type names listed by descending index
RECURSIVE ListDown(_)
ListDown(I) ==
    IF I = {} THEN <<>>
    ELSE LET top == CHOOSE i \in I : \A j \in I : j <= i
         IN  <<TypeName(top)>> \o ListDown(I \ {top})

\* the same list with its first element repeated at the end
WithRepeat(l) == IF l = <<>> THEN l ELSE Append(l, Head(l))

\* every list of at most MaxListLen of the type names F, FU and FC
SmallLists ==
    UNION {[1..k -> {TypeName(1), TypeName(2), TypeName(3)}] : k \in 0..MaxListLen}

\* every set of type names, in one order and with one repetition
LargeLists ==
    {ListDown(I) : I \in SUBSET (1..NumTypes)}
        \cup {WithRepeat(ListDown(I)) : I \in SUBSET (1..NumTypes)}

\* the text functions are not part of this specification
TextIdle ==
    /\ text = <<>>
    /\ op = "none"
    /\ marks_set = {}
    /\ type_out = <<>>
    /\ queried = {}

ColorInit ==
    /\ TextIdle
    /\ MatchIdle
    /\ RestIdle
    /\ types \in SmallLists \cup LargeLists
    /\ builder \in {"app", "mp"}
    /\ type_color_map = <<>>
    /\ cpc = "input"
    /\ prev_types = <<>>
    /\ prev_map = <<>>
    /\ calls = 0

\* one call of the colour assigner on the current list
BuildTypeColorMap ==
    /\ cpc = "input"
    /\ type_color_map' =
        IF builder = "app" THEN build_type_color_map(types)
        ELSE type_color_map_mp(types)
    /\ cpc' = "built"
    /\ calls' = calls + 1
    /\ UNCHANGED <<types, builder, prev_types, prev_map, textVars, matchVars, otherVars>>

\* a second call, on another short list
CallAgain ==
    /\ cpc = "built"
    /\ calls = 1
    /\ types \in SmallLists
    /\ \E l \in SmallLists :
        /\ types' = l
        /\ prev_types' = types
        /\ prev_map' = type_color_map
    /\ cpc' = "input"
    /\ UNCHANGED <<builder, type_color_map, calls, textVars, matchVars, otherVars>>

ColorNext == BuildTypeColorMap \/ CallAgain

SpecColor == ColorInit /\ [][ColorNext]_vars

-----------------------------------------------------------------------------
(* Inputs of the text functions *)

MaxTextLen == 4

MaxPrefix == 6

TextAlphabet == {"A", "c", "1", "-", "_", " "}

\* every string over the alphabet of at most n characters
StringsUpTo(n) == UNION {[1..k -> TextAlphabet] : k \in 0..n}

PrefixLetters == <<"F", "C", "U", "A", "B", "E", "D", "G", "H">>

\* a token: letters, separator, digits, possibly inside other text
Tokens ==
    {pre \o SubSeq(PrefixLetters, 1, n) \o sep \o dig \o post :
        n \in 0..MaxPrefix,
        sep \in {<<>>, <<"-">>, <<"_">>, <<" ">>, <<" ", "-", " ">>},
        dig \in {<<"1">>, <<"1", "2">>},
        pre \in {<<>>, <<"x">>, <<" ">>},
        post \in {<<>>, <<"a">>, <<" ">>}}

TextInputs == StringsUpTo(MaxTextLen) \cup Tokens

\* the colour assigner is not part of this specification
ColorIdle ==
    /\ types = <<>>
    /\ builder = "app"
    /\ type_color_map = <<>>
    /\ cpc = "idle"
    /\ prev_types = <<>>
    /\ prev_map = <<>>
    /\ calls = 0

TextInit ==
    /\ text \in TextInputs
    /\ op = "none"
    /\ marks_set = {}
    /\ type_out = <<>>
    /\ queried = {}
    /\ ColorIdle
    /\ MatchIdle
    /\ RestIdle

Extract(name, result) ==
    /\ op = "none"
    /\ op' = name
    /\ marks_set' = result
    /\ UNCHANGED <<text, type_out, queried, colorVars, matchVars, otherVars>>

Classify(name, result) ==
    /\ op = "none"
    /\ op' = name
    /\ type_out' = result
    /\ UNCHANGED <<text, marks_set, queried, colorVars, matchVars, otherVars>>

ExtractApp5 == Extract("extract_marks_robust", extract_marks_robust(text))

ExtractApp7 == Extract("extract_marks_from_text", extract_marks_from_text(text))

ExtractMp1 == Extract("extract_marks_findall", extract_marks_findall(text))

ExtractApp3 == Extract("extract_mark_cell_app3", extract_mark_cell_app3(text))

ExtractApp6 == Extract("extract_clean_tags_app6", extract_clean_tags_app6(text))

MarkTypeApp == Classify("mark_type_app", mark_type_app(text))

MarkTypeMp1 == Classify("mark_type_mp1", mark_type_mp1(text))

MarkTypeMp == Classify("mark_type_mp", mark_type_mp(text))

TextNext ==
    \/ ExtractApp5
    \/ ExtractApp7
    \/ ExtractMp1
    \/ ExtractApp3
    \/ ExtractApp6
    \/ MarkTypeApp
    \/ MarkTypeMp1
    \/ MarkTypeMp

SpecText == TextInit /\ [][TextNext]_vars

-----------------------------------------------------------------------------
(* Properties of the text functions, checked under SpecText *)

PrefixLen(s) == Len(LeadingRun(s, Letters, Len(s)))

\* LETTERS-DIGITS: upper-case letters, one hyphen, digits, nothing else
CanonicalShape(m) ==
    LET k == Len(LeadingUpper(m))
    IN  /\ k >= 1
        /\ Len(m) >= k + 2
        /\ m[k + 1] = "-"
        /\ AllIn(m, k + 2, Len(m) - k - 1, Digits)

\* letters, one separator character of the given set, digits
IsToken(s, seps) ==
    LET k == PrefixLen(s)
    IN  /\ k >= 1
        /\ Len(s) >= k + 2
        /\ s[k + 1] \in seps
        /\ AllIn(s, k + 2, Len(s) - k - 1, Digits)

\* the canonical mark of a token: upper-case letters, hyphen, digits
CanonOf(s) ==
    str_upper(SubSeq(s, 1, PrefixLen(s))) \o Hyphen
        \o SubSeq(s, PrefixLen(s) + 2, Len(s))

\* C3: tokens that differ only in letter case or in separator style (space,
\* hyphen, underscore) are all extracted and yield the same canonical mark
\* ('ac 1', 'AC-1' and 'AC_1' each yield exactly 'AC-1').
C3_SeparatorStyles ==
    (/\ op = "extract_marks_robust"
     /\ IsToken(text, {" ", "-", "_"})
     /\ PrefixLen(text) <= 4)
        => marks_set = {CanonOf(text)}

IsHyphenToken(s) == IsToken(s, {"-"}) /\ Len(s) = PrefixLen(s) + 2

PatternOps ==
    {"extract_marks_from_text", "extract_marks_findall", "extract_marks_robust"}

C6_MarkTypeFallback ==
    op = "mark_type_mp1" =>
        /\ CanonicalShape(text) => type_out = LeadingUpper(text)
        /\ PrefixLen(text) = 0 => type_out = SplitHyphenFirst(text)

-----------------------------------------------------------------------------
(* Properties of the colour assigner, checked under SpecColor *)

\* C7: two calls of the colour assigner on lists with the same set of
\* elements, in any order and with any multiplicity, return the same mapping.
C7_PermutationInsensitive ==
    (cpc = "built" /\ calls = 2 /\ Range(types) = Range(prev_types))
        => type_color_map = prev_map

\* the second call was on a reordered list with a repeated element
C7_Witness ==
    /\ cpc = "built"
    /\ calls = 2
    /\ builder = "app"
    /\ Range(types) = Range(prev_types)
    /\ Len(types) # Len(prev_types)
    /\ Cardinality(Range(types)) >= 2
    /\ Head(types) # Head(prev_types)

PaletteOf(b) == IF b = "app" THEN palette ELSE LIGHT_PALETTE

\* the number of keys of the mapping that sort before t
RankOf(t) == Cardinality({u \in DOMAIN type_color_map : StrLess(u, t)})

-----------------------------------------------------------------------------
(* The matching run: the declared marks are determined, the colour map is  *)
(* built, every (page, mark) pair is searched, highlighted and counted,    *)
(* and the run reports.  A page is the list of its text lines; a box is    *)
(* <<x0, y0, x1, y1>> on the character grid of the page.                   *)

\* s.strip()
RECURSIVE str_lstrip(_)
str_lstrip(s) ==
    IF s # <<>> /\ Head(s) \in SpaceChars THEN str_lstrip(Tail(s)) ELSE s

RECURSIVE str_rstrip(_)
str_rstrip(s) ==
    IF s # <<>> /\ s[Len(s)] \in SpaceChars
    THEN str_rstrip(SubSeq(s, 1, Len(s) - 1))
    ELSE s

str_strip(s) == str_rstrip(str_lstrip(s))

\* [l.strip() for l in lines]
strip_all(lines) == [k \in 1..Len(lines) |-> str_strip(lines[k])]

\* [l for l in lines if l]
RECURSIVE non_empty(_)
non_empty(lines) ==
    IF lines = <<>> THEN <<>>
    ELSE (IF Head(lines) # <<>> THEN <<Head(lines)>> ELSE <<>>)
            \o non_empty(Tail(lines))

\* [l for l in lines if key in l.upper()]
RECURSIVE lines_with(_, _)
lines_with(lines, key) ==
    IF lines = <<>> THEN <<>>
    ELSE (IF Contains(str_upper(Head(lines)), key) THEN <<Head(lines)>> ELSE <<>>)
            \o lines_with(Tail(lines), key)

\* a list without its repeated elements, first occurrences kept in order
RECURSIVE unique_from(_, _)
unique_from(xs, seen) ==
    IF xs = <<>> THEN seen
    ELSE unique_from(Tail(xs),
            IF Head(xs) \in Range(seen) THEN seen ELSE Append(seen, Head(xs)))

\* "\n".join(lines): the text of a page
RECURSIVE page_text(_)
page_text(lines) ==
    IF lines = <<>> THEN <<>>
    ELSE IF Len(lines) = 1 THEN lines[1]
    ELSE lines[1] \o <<"\n">> \o page_text(Tail(lines))

\* Python's None, which the callers only test for truth
None == <<>>

KEY_PLAN == <<"P","L","A","N">>

KEY_MECHANICAL == <<"M","E","C","H","A","N","I","C","A","L">>

\* app.py get_plan_label: the keys tried in order after MECHANICAL
PLAN_KEYS ==
    << <<"F","L","O","O","R"," ","P","L","A","N">>,
       <<"R","O","O","F"," ","P","L","A","N">>,
       <<"P","I","P","I","N","G"," ","P","L","A","N">>,
       <<"D","E","T","E","C","T","I","O","N"," ","P","L","A","N">> >>

\* app1.py get_plan_label, mechanical_processor1.py get_plan_type
get_plan_label_app1(page) ==
    LET lines == strip_all(lines_with(page, KEY_PLAN))
        mech  == lines_with(lines, KEY_MECHANICAL)
    IN  IF mech # <<>> THEN mech[1]
        ELSE IF lines # <<>> THEN lines[1]
        ELSE None

\* app3.py get_plan_label
get_plan_label_app3(page) ==
    LET lines == non_empty(strip_all(page))
        plans == lines_with(lines, KEY_PLAN)
    IN  IF plans # <<>> THEN plans[1] ELSE None

\* app.py get_plan_label: the first line holding the first key that occurs
RECURSIVE first_by_key(_, _)
first_by_key(plan_lines, k) ==
    IF k > Len(PLAN_KEYS) THEN plan_lines[1]
    ELSE IF lines_with(plan_lines, PLAN_KEYS[k]) # <<>>
         THEN lines_with(plan_lines, PLAN_KEYS[k])[1]
    ELSE first_by_key(plan_lines, k + 1)

get_plan_label_app(page) ==
    LET lines      == non_empty(strip_all(page))
        plan_lines == lines_with(lines, KEY_PLAN)
        preferred  == lines_with(plan_lines, KEY_MECHANICAL)
    IN  IF plan_lines = <<>> THEN None
        ELSE IF preferred # <<>> THEN preferred[1]
        ELSE first_by_key(plan_lines, 1)

get_plan_label(i, page) ==
    CASE i = "app"  -> get_plan_label_app(page)
      [] i = "app3" -> get_plan_label_app3(page)
      [] OTHER      -> get_plan_label_app1(page)

\* page.search_for(needle): the boxes of the occurrences of the literal
\* needle on the page, in reading order, letter case ignored
RECURSIVE line_search(_, _, _, _)
line_search(line, needle, y, x) ==
    IF x + Len(needle) - 1 > Len(line) THEN <<>>
    ELSE (IF OccursAt(line, needle, x)
          THEN << <<x, y, x + Len(needle), y + 1>> >> ELSE <<>>)
            \o line_search(line, needle, y, x + 1)

RECURSIVE search_from(_, _, _)
search_from(page, needle, y) ==
    IF y > Len(page) THEN <<>>
    ELSE line_search(str_upper(page[y]), needle, y, 1)
            \o search_from(page, needle, y + 1)

search_for(page, needle) ==
    IF needle = <<>> THEN <<>> ELSE search_from(page, str_upper(needle), 1)

\* only the mark as written is searched
search_variants_exact(mark) == {mark}

\* app.py / app1.py / app3.py highlight_pdf: variants
search_variants(mark) ==
    {mark, str_replace(mark, "-", <<" ">>), str_replace(mark, "-", <<>>)}

\* mechanical_processor1.py build_search_variants
build_search_variants(mark) == search_variants(mark) \cup {str_lower(mark)}

variants_of(i, mark) ==
    IF i = "mp1" THEN build_search_variants(mark) ELSE search_variants(mark)

\* rects.extend(page.search_for(v)) for every v of the list vs
RECURSIVE search_all(_, _)
search_all(page, vs) ==
    IF vs = <<>> THEN <<>>
    ELSE search_for(page, Head(vs)) \o search_all(page, Tail(vs))

\* the boxes of one (page, mark) pair before deduplication; the loop
\* visits the set of variants in some order, here the sorted one
pair_rects(i, page, mark) == search_all(page, Sorted(variants_of(i, mark)))

\* app.py highlight_pdf: unique_rects
unique_rects(rects) == unique_from(rects, <<>>)

\* the deduplicated boxes of one pair, as a set
pair_boxes(i, page, mark) == Range(unique_rects(pair_rects(i, page, mark)))

\* app.py extract_schedules_and_marks on one cleaned, non-empty cell:
\* MARK_REGEX.match(cell), the pattern starting with ^
extract_mark_cell_app(s) ==
    LET m == re_match(MARK_REGEX, s)
    IN  IF m.ok THEN {str_upper(Group0(s, m))} ELSE {}

\* df[col].dropna().astype(str).str.strip().str.upper().unique().tolist()
excel_tags_of(col) ==
    unique_from([k \in 1..Len(col) |-> str_upper(str_strip(col[k]))], <<>>)

\* app1.py / mechanical_processor1.py extract_schedules_and_marks:
\* the marks the pattern finds in the text of the pages
pdf_marks(d) == UNION {extract_marks_findall(page_text(d[k])) : k \in 1..Len(d)}

\* app.py extract_schedules_and_marks: the marks of the cleaned cells
schedule_marks_app(cs) ==
    UNION {extract_mark_cell_app(c) : c \in Range(non_empty(strip_all(cs)))}

\* app3.py extract_schedules_and_marks: the marks of the cleaned cells
schedule_marks_app3(cs) ==
    UNION {extract_mark_cell_app3(c) : c \in Range(non_empty(strip_all(cs)))}

\* an emptiness test that lets every list through
not_all_tags_skipped(tags) == FALSE

\* app1.py "if not all_tags", mechanical_processor1.py run_pipeline
not_all_tags(tags) == tags = <<>>

\* the mark_type of the program that runs
MarkTypeOf(i, mark) ==
    CASE i = "app1" -> mark_type_app1(mark)
      [] i = "mp1"  -> mark_type_mp1(mark)
      [] i = "app3" -> mark_type_app3(mark)
      [] OTHER      -> mark_type_app(mark)

\* the types taken as the text before the first hyphen, whatever the program
types_of_marks_split(i, marks) ==
    [k \in 1..Len(marks) |-> mark_type_app3(marks[k])]

\* highlight_pdf: types = [mark_type(m) for m in marks]
types_of_marks(i, marks) ==
    [k \in 1..Len(marks) |-> MarkTypeOf(i, marks[k])]

\* app1.py build_type_color_map: palette
palette_app1 ==
    << <<100, 0, 0>>, <<0, 0, 100>>, <<0, 60, 0>>, <<100, 50, 0>>,
       <<60, 0, 60>>, <<0, 70, 70>>, <<70, 70, 0>> >>

\* app3.py build_type_color_map: palette
palette_app3 ==
    << <<100, 0, 0>>, <<0, 0, 100>>, <<0, 60, 0>>, <<100, 50, 0>>,
       <<60, 0, 60>>, <<0, 70, 70>>, <<50, 50, 50>> >>

\* mechanical_processor1.py LIGHT_PALETTE
LIGHT_PALETTE_mp1 ==
    << <<75, 45, 45>>, <<45, 45, 75>>, <<45, 75, 45>>, <<75, 75, 45>>,
       <<75, 55, 35>>, <<65, 45, 75>>, <<35, 65, 65>>, <<75, 65, 45>>,
       <<45, 65, 75>> >>

\* app.py highlight_pdf: the default of type_color_map.get
DEFAULT_COLOR == <<100, 100, 0>>

run_palette(i) ==
    CASE i = "app1" -> palette_app1
      [] i = "mp1"  -> LIGHT_PALETTE_mp1
      [] i = "app3" -> palette_app3
      [] OTHER      -> palette

\* the type_color_map a run builds from its marks
run_color_map(i, marks) ==
    EnumerateColors(Sorted(Range(types_of_marks(i, marks))), run_palette(i))

\* counts[plan][key] = n: the entry is overwritten
add_count_overwrite(counts, plan, key, n) ==
    LET inner == IF plan \in DOMAIN counts THEN counts[plan] ELSE <<>>
        new   == [k \in DOMAIN inner \cup {key} |->
                     IF k = key THEN n ELSE inner[k]]
    IN  [q \in DOMAIN counts \cup {plan} |-> IF q = plan THEN new ELSE counts[q]]

\* counts[plan][key] += n on a defaultdict of defaultdict(int)
add_count(counts, plan, key, n) ==
    LET inner == IF plan \in DOMAIN counts THEN counts[plan] ELSE <<>>
        old   == IF key \in DOMAIN inner THEN inner[key] ELSE 0
        new   == [k \in DOMAIN inner \cup {key} |->
                     IF k = key THEN old + n ELSE inner[k]]
    IN  [q \in DOMAIN counts \cup {plan} |-> IF q = plan THEN new ELSE counts[q]]

\* a report that lists every declared mark as missing
missing_of_all(tags, found) == Sorted(Range(tags))

\* app1.py: missing_tags = sorted(set(all_tags) - found_tags)
missing_of(tags, found) == Sorted(Range(tags) \ found)

MaxPages == 2

\* the pages a document is made of
PageMech == << <<"M","E","C","H","A","N","I","C","A","L"," ","F","L","O","O","R"," ","P","L","A","N">>, <<"A","C"," ","1">>, <<"E","F","-","2">> >>

PageBlank == <<>>

PageNotes == << <<"a","c","-","1"," ","A","C","1">> >>

PageRoof == << <<"R","o","o","f"," ","p","l","a","n">>, <<"E","F","-","2"," ","E","F","-","2">> >>

PagePlanOnly == << <<" ","F","L","O","O","R"," ","P","L","A","N"," ">> >>

PageSchedule == << <<"S","C","H","E","D","U","L","E">>, <<"F","C","U","-","1">> >>

PageTwoPlans == << <<"S","I","T","E"," ","P","L","A","N">>, <<"M","E","C","H","A","N","I","C","A","L"," ","P","L","A","N">>, <<"E","F","-","2">> >>

PageCatalogue ==
    {PageMech, PageBlank, PageNotes, PageRoof, PagePlanOnly, PageSchedule,
     PageTwoPlans}

Docs == UNION {[1..k -> PageCatalogue] : k \in 1..MaxPages}

\* the cell lists that come with a document
CellLists ==
    { <<>>,
      << <<"a","c","-","1">>, <<" ","A","C","-","1">>, <<"E","F","-","2">> >>,
      << <<"1","-","1">>, <<"E","F","-","2">> >>,
      << <<"A","H","-","3">>, <<"E","F","-","2">>, <<"E","F">> >>,
      << <<"M","A","R","K">>, <<"A","B","C","D","E","-","1">> >> }

Impls == {"app1", "mp1", "app", "app3"}

MatchInit ==
    /\ TextIdle
    /\ ColorIdle
    /\ RestIdle
    /\ impl \in Impls
    /\ doc = <<>>
    /\ cells = <<>>
    /\ all_tags = <<>>
    /\ color_map = <<>>
    /\ pc = "start"
    /\ page_i = 0
    /\ mark_i = 0
    /\ plan_mark_counts = <<>>
    /\ plan_type_counts = <<>>
    /\ found_tags = {}
    /\ annots = {}
    /\ missing_tags = <<>>

runVars ==
    <<color_map, page_i, mark_i, plan_mark_counts, plan_type_counts,
      found_tags, annots, missing_tags>>

\* the files are uploaded
Upload ==
    /\ pc = "start"
    /\ \E d \in Docs, c \in CellLists :
        /\ doc' = d
        /\ cells' = c
    /\ pc' = "uploaded"
    /\ UNCHANGED <<impl, all_tags, runVars, textVars, colorVars, otherVars>>

\* app1.py main script: the Excel tags when there are any, else the marks
\* of the PDF; an empty list stops the run with an error
RunProcessingApp1 ==
    /\ pc = "uploaded"
    /\ impl = "app1"
    /\ LET excel_tags == excel_tags_of(cells)
           tags == IF excel_tags # <<>> THEN excel_tags
                   ELSE Sorted(pdf_marks(doc))
       IN  /\ all_tags' = tags
           /\ pc' = IF not_all_tags(tags) THEN "error" ELSE "ready"
    /\ UNCHANGED <<impl, doc, cells, runVars, textVars, colorVars, otherVars>>

\* mechanical_processor1.py run_pipeline: the merged tags of PDF and Excel;
\* an empty list raises ValueError
RunPipeline ==
    /\ pc = "uploaded"
    /\ impl = "mp1"
    /\ LET tags == Sorted(pdf_marks(doc) \cup Range(excel_tags_of(cells)))
       IN  /\ all_tags' = tags
           /\ pc' = IF not_all_tags(tags) THEN "error" ELSE "ready"
    /\ UNCHANGED <<impl, doc, cells, runVars, textVars, colorVars, otherVars>>

\* app.py main script: the marks of the schedule cells; "if marks:"
DetectMarksApp ==
    /\ pc = "uploaded"
    /\ impl = "app"
    /\ LET marks == Sorted(schedule_marks_app(cells))
       IN  /\ all_tags' = marks
           /\ pc' = IF marks # <<>> THEN "ready" ELSE "no_marks"
    /\ UNCHANGED <<impl, doc, cells, runVars, textVars, colorVars, otherVars>>

\* app3.py main script: the marks of the schedule cells; "if marks:"
DetectMarksApp3 ==
    /\ pc = "uploaded"
    /\ impl = "app3"
    /\ LET marks == Sorted(schedule_marks_app3(cells))
       IN  /\ all_tags' = marks
           /\ pc' = IF marks # <<>> THEN "ready" ELSE "no_marks"
    /\ UNCHANGED <<impl, doc, cells, runVars, textVars, colorVars, otherVars>>

\* highlight_pdf before its loops: the colour map is built and the
\* aggregates start empty; with no marks the loops add nothing
BeginHighlight ==
    /\ pc = "ready"
    /\ color_map' = run_color_map(impl, all_tags)
    /\ page_i' = 1
    /\ mark_i' = 1
    /\ pc' = IF all_tags = <<>> THEN "saved" ELSE "highlight"
    /\ UNCHANGED <<impl, doc, cells, all_tags, plan_mark_counts,
                   plan_type_counts, found_tags, annots, missing_tags,
                   textVars, colorVars, otherVars>>

\* the loops move to the next mark, the next page, or the save
NextPair ==
    IF mark_i < Len(all_tags)
    THEN mark_i' = mark_i + 1 /\ UNCHANGED <<page_i, pc>>
    ELSE IF page_i < Len(doc)
    THEN page_i' = page_i + 1 /\ mark_i' = 1 /\ UNCHANGED pc
    ELSE pc' = "saved" /\ UNCHANGED <<page_i, mark_i>>

\* page.add_highlight_annot(r) with the stroke colour, for every box
AddAnnots(mark, boxes, color) ==
    annots' = annots \cup
        {[page |-> page_i, mark |-> mark, box |-> b, color |-> color] :
            b \in boxes}

\* both aggregates grow by n whether the page has a plan label or not
CountOnPlan_always(plan, mark, t, n) ==
    /\ plan_mark_counts' = add_count(plan_mark_counts, plan, mark, n)
    /\ plan_type_counts' = add_count(plan_type_counts, plan, t, n)

\* "if plan:" both aggregates grow by n
CountOnPlan(plan, mark, t, n) ==
    IF plan # None
    THEN /\ plan_mark_counts' = add_count(plan_mark_counts, plan, mark, n)
         /\ plan_type_counts' = add_count(plan_type_counts, plan, t, n)
    ELSE UNCHANGED <<plan_mark_counts, plan_type_counts>>

\* an exception leaves the loop with what was done so far
Crash ==
    /\ pc' = "crashed"
    /\ UNCHANGED <<page_i, mark_i, annots, plan_mark_counts, plan_type_counts>>

\* app1.py highlight_pdf: one (page, mark) pair
HighlightPairApp1 ==
    /\ pc = "highlight"
    /\ impl = "app1"
    /\ LET page  == doc[page_i]
           mark  == all_tags[mark_i]
           plan  == get_plan_label(impl, page)
           boxes == pair_boxes(impl, page, mark)
           t     == mark_type_app1(mark)
       IN  IF boxes = {}
           THEN /\ NextPair
                /\ UNCHANGED <<found_tags, annots, plan_mark_counts,
                               plan_type_counts>>
           ELSE /\ found_tags' = found_tags \cup {mark}
                /\ IF t \notin DOMAIN color_map
                   THEN Crash
                   ELSE /\ AddAnnots(mark, boxes, color_map[t])
                        /\ CountOnPlan(plan, mark, t, Cardinality(boxes))
                        /\ NextPair
    /\ UNCHANGED <<impl, doc, cells, all_tags, color_map, missing_tags,
                   textVars, colorVars, otherVars>>

\* mechanical_processor1.py highlight_pdf_and_count: one (page, tag) pair
HighlightPairMp1 ==
    /\ pc = "highlight"
    /\ impl = "mp1"
    /\ LET page  == doc[page_i]
           tag   == all_tags[mark_i]
           plan  == get_plan_label(impl, page)
           boxes == pair_boxes(impl, page, tag)
           t     == mark_type_mp1(tag)
       IN  IF boxes = {}
           THEN /\ NextPair
                /\ UNCHANGED <<annots, plan_mark_counts, plan_type_counts>>
           ELSE IF t \notin DOMAIN color_map
           THEN Crash
           ELSE /\ AddAnnots(tag, boxes, color_map[t])
                /\ CountOnPlan(plan, tag, t, Cardinality(boxes))
                /\ NextPair
    /\ UNCHANGED <<impl, doc, cells, all_tags, color_map, found_tags,
                   missing_tags, textVars, colorVars, otherVars>>

\* app.py highlight_pdf: one (page, mark) pair
HighlightPairApp ==
    /\ pc = "highlight"
    /\ impl = "app"
    /\ LET page  == doc[page_i]
           mark  == all_tags[mark_i]
           plan  == get_plan_label(impl, page)
           boxes == pair_boxes(impl, page, mark)
           t     == mark_type_app(mark)
           color == IF t \in DOMAIN color_map THEN color_map[t]
                    ELSE DEFAULT_COLOR
       IN  IF mark = <<>> \/ boxes = {}
           THEN /\ NextPair
                /\ UNCHANGED <<annots, plan_mark_counts, plan_type_counts>>
           ELSE /\ AddAnnots(mark, boxes, color)
                /\ CountOnPlan(plan, mark, t, Cardinality(boxes))
                /\ NextPair
    /\ UNCHANGED <<impl, doc, cells, all_tags, color_map, found_tags,
                   missing_tags, textVars, colorVars, otherVars>>

\* app3.py highlight_pdf: one (page, mark) pair; the colour is looked up
\* first and a pair without boxes is not skipped
HighlightPairApp3 ==
    /\ pc = "highlight"
    /\ impl = "app3"
    /\ LET page  == doc[page_i]
           mark  == all_tags[mark_i]
           plan  == get_plan_label(impl, page)
           boxes == pair_boxes(impl, page, mark)
           t     == mark_type_app3(mark)
       IN  IF t \notin DOMAIN color_map
           THEN Crash
           ELSE /\ AddAnnots(mark, boxes, color_map[t])
                /\ CountOnPlan(plan, mark, t, Cardinality(boxes))
                /\ NextPair
    /\ UNCHANGED <<impl, doc, cells, all_tags, color_map, found_tags,
                   missing_tags, textVars, colorVars, otherVars>>

\* app1.py main script after highlight_pdf returned: the missing tags
ReportApp1 ==
    /\ pc = "saved"
    /\ impl = "app1"
    /\ missing_tags' = missing_of(all_tags, found_tags)
    /\ pc' = "done"
    /\ UNCHANGED <<impl, doc, cells, all_tags, color_map, page_i, mark_i,
                   plan_mark_counts, plan_type_counts, found_tags, annots,
                   textVars, colorVars, otherVars>>

\* the other programs after the highlighted PDF was saved: the annotated
\* PDF and the aggregates are handed out
WriteOutputs ==
    /\ pc = "saved"
    /\ impl # "app1"
    /\ pc' = "done"
    /\ UNCHANGED <<impl, doc, cells, all_tags, runVars, textVars, colorVars, otherVars>>

MatchNext ==
    \/ Upload
    \/ RunProcessingApp1
    \/ RunPipeline
    \/ DetectMarksApp
    \/ DetectMarksApp3
    \/ BeginHighlight
    \/ HighlightPairApp1
    \/ HighlightPairMp1
    \/ HighlightPairApp
    \/ HighlightPairApp3
    \/ ReportApp1
    \/ WriteOutputs

SpecMatch == MatchInit /\ [][MatchNext]_vars

-----------------------------------------------------------------------------
(* Properties of the matching run, checked under SpecMatch *)

\* the marks of list tags
Declared == Range(all_tags)

\* mark m has a box on some page of the document
HasBox(m) == \E j \in 1..Len(doc) : pair_boxes(impl, doc[j], m) # {}

\* C1: in app1.py every mark reported found is a declared mark, and once
\* the run has reported, the found and the missing marks are disjoint and
\* together are exactly the declared marks
C1_FoundMissingPartition ==
    impl = "app1" =>
        /\ found_tags \subseteq Declared
        /\ pc = "done" =>
            /\ found_tags \cup Range(missing_tags) = Declared
            /\ found_tags \cap Range(missing_tags) = {}

\* a finished app1.py run with a found and a missing mark
C1_Witness ==
    /\ impl = "app1"
    /\ pc = "done"
    /\ found_tags # {}
    /\ missing_tags # <<>>

\* C2: when the Excel file and the PDF declare no mark, app1.py and
\* run_pipeline stop with the "no tags" error before highlighting: no colour
\* map, no annotation, no aggregate and no report exist; and the error is
\* raised for no other reason
C2_EmptyDeclaredSetStops ==
    /\ (impl \in {"app1", "mp1"} /\ pc \notin {"start", "uploaded"}
            /\ all_tags = <<>>) =>
        /\ pc = "error"
        /\ page_i = 0
        /\ DOMAIN color_map = {}
        /\ annots = {}
        /\ DOMAIN plan_mark_counts = {}
        /\ DOMAIN plan_type_counts = {}
        /\ missing_tags = <<>>
    /\ pc = "error" => all_tags = <<>>

\* run_pipeline stopped on a document that declares nothing
C2_Witness ==
    /\ impl = "mp1"
    /\ pc = "error"
    /\ doc # <<>>
    /\ all_tags = <<>>

\* C9: in every state of a matching run the type of every declared mark is
\* a key of the run's colour map; no lookup fails, every annotation carries
\* the colour the map gives its mark's type and never the default, and the
\* type of every key of both aggregates is a key of the map
C9_TypeLookupTotal ==
    /\ pc # "crashed"
    /\ pc \in {"highlight", "saved", "done"} =>
        /\ \A m \in Declared : MarkTypeOf(impl, m) \in DOMAIN color_map
        /\ \A a \in annots :
            /\ MarkTypeOf(impl, a.mark) \in DOMAIN color_map
            /\ a.color = color_map[MarkTypeOf(impl, a.mark)]
            /\ a.color # DEFAULT_COLOR
        /\ \A p \in DOMAIN plan_mark_counts :
            \A m \in DOMAIN plan_mark_counts[p] :
                MarkTypeOf(impl, m) \in DOMAIN color_map
        /\ \A p \in DOMAIN plan_type_counts :
            DOMAIN plan_type_counts[p] \subseteq DOMAIN color_map

\* a finished app.py run that highlighted and counted
C9_Witness ==
    /\ impl = "app"
    /\ pc = "done"
    /\ annots # {}
    /\ DOMAIN plan_mark_counts # {}
    /\ DOMAIN plan_type_counts # {}

\* C10: every count stored in the aggregates is at least 1, and a declared
\* mark without a box on any page has no annotation, no entry in the
\* per-mark aggregate, and is reported missing
C10_NoZeroEntries ==
    /\ \A p \in DOMAIN plan_mark_counts :
        \A m \in DOMAIN plan_mark_counts[p] : plan_mark_counts[p][m] >= 1
    /\ \A p \in DOMAIN plan_type_counts :
        \A t \in DOMAIN plan_type_counts[p] : plan_type_counts[p][t] >= 1
    /\ pc = "done" =>
        \A m \in Declared :
            ~HasBox(m) =>
                /\ \A a \in annots : a.mark # m
                /\ \A p \in DOMAIN plan_mark_counts :
                    m \notin DOMAIN plan_mark_counts[p]
                /\ impl = "app1" => m \in Range(missing_tags)

\* the number of boxes of mark m on the first j pages whose plan label is p
RECURSIVE BoxesOnPlan(_, _, _)
BoxesOnPlan(p, m, j) ==
    IF j = 0 THEN 0
    ELSE BoxesOnPlan(p, m, j - 1)
            + (IF get_plan_label(impl, doc[j]) = p
               THEN Cardinality(pair_boxes(impl, doc[j], m)) ELSE 0)

\* counts[p][k], 0 when there is no such entry
CountOf(counts, p, k) ==
    IF p \in DOMAIN counts
    THEN (IF k \in DOMAIN counts[p] THEN counts[p][k] ELSE 0)
    ELSE 0

\* the plan labels of the pages of the document
PlanLabels ==
    {get_plan_label(impl, doc[j]) : j \in 1..Len(doc)} \ {None}

MarkAC1 == <<"A", "C", "-", "1">>

MarkEF2 == <<"E", "F", "-", "2">>

\* scenario 2 of the specification: marks AC-1 and EF-2, page 1 labelled
\* MECHANICAL FLOOR PLAN with one "AC 1" and one "EF-2", page 2 empty
Scenario2 ==
    /\ doc = <<PageMech, PageBlank>>
    /\ Declared = {MarkAC1, MarkEF2}
    /\ pc = "done"

\* C11: in scenario 2 the per-mark aggregate is exactly
\* {MECHANICAL FLOOR PLAN: {AC-1: 1, EF-2: 1}} and no mark is missing
C11_ScenarioTwo ==
    Scenario2 =>
        /\ DOMAIN plan_mark_counts = {PageMech[1]}
        /\ DOMAIN plan_mark_counts[PageMech[1]] = {MarkAC1, MarkEF2}
        /\ plan_mark_counts[PageMech[1]][MarkAC1] = 1
        /\ plan_mark_counts[PageMech[1]][MarkEF2] = 1
        /\ impl = "app1" => (missing_tags = <<>> /\ found_tags = Declared)

\* app1.py finished scenario 2
C11_Witness == Scenario2 /\ impl = "app1"

\* C12: when the loops are over, the count stored for plan label p and
\* declared mark m is the sum, over the pages labelled p, of the numbers of
\* deduplicated boxes of m; there are no other keys
C12_CountsAreSums ==
    pc \in {"saved", "done"} =>
        /\ DOMAIN plan_mark_counts \subseteq PlanLabels
        /\ \A p \in DOMAIN plan_mark_counts :
            DOMAIN plan_mark_counts[p] \subseteq Declared
        /\ \A p \in PlanLabels : \A m \in Declared :
            CountOf(plan_mark_counts, p, m) = BoxesOnPlan(p, m, Len(doc))

\* two pages with the same plan label both hold the same mark
C12_Witness ==
    /\ pc = "done"
    /\ impl = "app"
    /\ Len(doc) >= 2
    /\ get_plan_label(impl, doc[1]) # None
    /\ get_plan_label(impl, doc[1]) = get_plan_label(impl, doc[2])
    /\ \E m \in Declared :
        /\ pair_boxes(impl, doc[1], m) # {}
        /\ pair_boxes(impl, doc[2], m) # {}

\* every box of mark m is on a page without a plan label, and there is one
OnlyOffPlan(m) ==
    /\ HasBox(m)
    /\ \A j \in 1..Len(doc) :
        pair_boxes(impl, doc[j], m) # {} => get_plan_label(impl, doc[j]) = None

\* C13: in app1.py, app.py and mechanical_processor1.py a declared mark
\* whose boxes are all on pages without a plan label is found, not missing
\* and annotated, has no entry in the per-mark aggregate, and its type has
\* an entry only where another mark of the type was counted
C13_FoundWithoutPlan ==
    (pc = "done" /\ impl # "app3") =>
        \A m \in Declared :
            OnlyOffPlan(m) =>
                /\ impl = "app1" =>
                    (m \in found_tags /\ m \notin Range(missing_tags))
                /\ \E a \in annots : a.mark = m
                /\ \A p \in DOMAIN plan_mark_counts :
                    m \notin DOMAIN plan_mark_counts[p]
                /\ \A p \in DOMAIN plan_type_counts :
                    MarkTypeOf(impl, m) \in DOMAIN plan_type_counts[p] =>
                        \E o \in Declared \ {m} :
                            /\ MarkTypeOf(impl, o) = MarkTypeOf(impl, m)
                            /\ BoxesOnPlan(p, o, Len(doc)) >= 1

\* app1.py found a mark that occurs only on a page without a plan label,
\* in a document that also has a labelled page
C13_Witness ==
    /\ pc = "done"
    /\ impl = "app1"
    /\ PlanLabels # {}
    /\ \E m \in Declared : OnlyOffPlan(m)

-----------------------------------------------------------------------------
(* The matching loop with its (page, mark) pairs taken in any order: the    *)
(* loop body of app1.py and app.py is applied to one pair not yet visited,  *)
(* whatever pair that is, until every pair has been visited.                *)

PageRoofOne == << <<"R","o","o","f"," ","p","l","a","n">>, <<"E","F","-","2">> >>

OrderPages == {PageMech, PageNotes, PageRoof, PageRoofOne}

OrderDocs == UNION {[1..k -> OrderPages] : k \in 1..MaxPages}

OrderCells ==
    { << <<"a","c","-","1">>, <<" ","A","C","-","1">>, <<"E","F","-","2">> >>,
      << <<"E","F","-","2">> >> }

\* the files are uploaded and the run is about to start
OrderInit ==
    /\ TextIdle
    /\ ColorIdle
    /\ RestIdle
    /\ impl \in {"app1", "app"}
    /\ doc \in OrderDocs
    /\ cells \in OrderCells
    /\ all_tags = <<>>
    /\ color_map = <<>>
    /\ pc = "uploaded"
    /\ page_i = 0
    /\ mark_i = 0
    /\ plan_mark_counts = <<>>
    /\ plan_type_counts = <<>>
    /\ found_tags = {}
    /\ annots = {}
    /\ missing_tags = <<>>

\* the pairs the two loops go through
AllPairs == (1..Len(doc)) \X (1..Len(all_tags))

\* after a pair: the loops are over once every pair was visited
AfterVisit(j, k) ==
    /\ visited' = visited \cup {<<j, k>>}
    /\ page_i' = j
    /\ mark_i' = k
    /\ pc' = IF visited \cup {<<j, k>>} = AllPairs THEN "saved" ELSE pc

\* page.add_highlight_annot(r) on page j
AddAnnotsAt(j, mark, boxes, color) ==
    annots' = annots \cup
        {[page |-> j, mark |-> mark, box |-> b, color |-> color] : b \in boxes}

\* app1.py highlight_pdf: the loop body on the pair (j, k)
VisitPairApp1 ==
    /\ pc = "highlight"
    /\ impl = "app1"
    /\ \E <<j, k>> \in AllPairs \ visited :
        LET page  == doc[j]
            mark  == all_tags[k]
            plan  == get_plan_label(impl, page)
            boxes == pair_boxes(impl, page, mark)
            t     == mark_type_app1(mark)
        IN  /\ AfterVisit(j, k)
            /\ IF boxes = {}
               THEN UNCHANGED <<found_tags, annots, plan_mark_counts,
                               plan_type_counts>>
               ELSE /\ found_tags' = found_tags \cup {mark}
                    /\ AddAnnotsAt(j, mark, boxes, color_map[t])
                    /\ CountOnPlan(plan, mark, t, Cardinality(boxes))
    /\ UNCHANGED <<impl, doc, cells, all_tags, color_map, missing_tags,
                   textVars, colorVars, sideVars>>

\* app.py highlight_pdf: the loop body on the pair (j, k)
VisitPairApp ==
    /\ pc = "highlight"
    /\ impl = "app"
    /\ \E <<j, k>> \in AllPairs \ visited :
        LET page  == doc[j]
            mark  == all_tags[k]
            plan  == get_plan_label(impl, page)
            boxes == pair_boxes(impl, page, mark)
            t     == mark_type_app(mark)
            color == IF t \in DOMAIN color_map THEN color_map[t]
                     ELSE DEFAULT_COLOR
        IN  /\ AfterVisit(j, k)
            /\ IF mark = <<>> \/ boxes = {}
               THEN UNCHANGED <<annots, plan_mark_counts, plan_type_counts>>
               ELSE /\ AddAnnotsAt(j, mark, boxes, color)
                    /\ CountOnPlan(plan, mark, t, Cardinality(boxes))
    /\ UNCHANGED <<impl, doc, cells, all_tags, color_map, found_tags,
                   missing_tags, textVars, colorVars, sideVars>>

OrderNext ==
    \/ RunProcessingApp1
    \/ DetectMarksApp
    \/ BeginHighlight
    \/ VisitPairApp1
    \/ VisitPairApp
    \/ ReportApp1
    \/ WriteOutputs

SpecAnyOrder == OrderInit /\ [][OrderNext]_vars

\* the aggregates of highlight_pdf after the first n pairs of its loops,
\* pages outer and marks inner
RECURSIVE loop_mark_counts(_)
loop_mark_counts(n) ==
    IF n = 0 THEN <<>>
    ELSE LET j     == ((n - 1) \div Len(all_tags)) + 1
             mark  == all_tags[((n - 1) % Len(all_tags)) + 1]
             plan  == get_plan_label(impl, doc[j])
             boxes == pair_boxes(impl, doc[j], mark)
             prev  == loop_mark_counts(n - 1)
         IN  IF boxes = {} \/ plan = None THEN prev
             ELSE add_count(prev, plan, mark, Cardinality(boxes))

RECURSIVE loop_type_counts(_)
loop_type_counts(n) ==
    IF n = 0 THEN <<>>
    ELSE LET j     == ((n - 1) \div Len(all_tags)) + 1
             mark  == all_tags[((n - 1) % Len(all_tags)) + 1]
             plan  == get_plan_label(impl, doc[j])
             boxes == pair_boxes(impl, doc[j], mark)
             prev  == loop_type_counts(n - 1)
         IN  IF boxes = {} \/ plan = None THEN prev
             ELSE add_count(prev, plan, MarkTypeOf(impl, mark),
                            Cardinality(boxes))

RECURSIVE loop_found_tags(_)
loop_found_tags(n) ==
    IF n = 0 THEN {}
    ELSE LET j     == ((n - 1) \div Len(all_tags)) + 1
             mark  == all_tags[((n - 1) % Len(all_tags)) + 1]
         IN  loop_found_tags(n - 1)
                \cup (IF pair_boxes(impl, doc[j], mark) = {} THEN {} ELSE {mark})

\* the number of pairs of the loops
NumPairs == Len(doc) * Len(all_tags)

\* C14: when every (page, mark) pair has been processed, in whatever
\* order, both aggregates and the found set are those of the sequential
\* loops of highlight_pdf
C14_OrderIndependent ==
    pc \in {"saved", "done"} =>
        /\ plan_mark_counts = loop_mark_counts(NumPairs)
        /\ plan_type_counts = loop_type_counts(NumPairs)
        /\ impl = "app1" => found_tags = loop_found_tags(NumPairs)

\* a run that went through the pages in descending order and counted on
\* two pages with the same plan label
C14_Witness ==
    /\ pc = "done"
    /\ Len(doc) >= 2
    /\ page_i = 1
    /\ doc[1] # doc[2]
    /\ get_plan_label(impl, doc[1]) = get_plan_label(impl, doc[2])
    /\ \E p \in DOMAIN plan_mark_counts :
        \E m \in DOMAIN plan_mark_counts[p] : plan_mark_counts[p][m] >= 3

-----------------------------------------------------------------------------
(* OCR normalization: app5.py create_searchable_pdf, app3.py               *)
(* ensure_searchable_pdf and app7.py ocr_pdf.  A page is a record of its   *)
(* width and height; a page of the result also records the input page it   *)
(* was made from.  The OCR collaborator either returns a text-bearing page *)
(* of the geometry of the page it was given, or raises.                    *)

MaxOcrPages == 4

\* app3.py ensure_searchable_pdf: pdf.pages[:3]
SAMPLE_PAGES == 3

\* app3.py ensure_searchable_pdf: len(text.strip()) > 50
MIN_TEXT == 50

\* a text of n characters that are not spaces
Filler(n) == [k \in 1..n |-> "x"]

\* the pages of an input PDF: the width, the height, and the text
\* page.extract_text() gives (None, written as the empty text, for a page
\* that is a scan; 50 characters between spaces; 51 characters)
OcrPages ==
    { [width |-> 612,  height |-> 792, text |-> None],
      [width |-> 1224, height |-> 792, text |-> None],
      [width |-> 612,  height |-> 792,
       text |-> <<" ">> \o Filler(MIN_TEXT) \o <<" ", " ">>],
      [width |-> 1224, height |-> 792, text |-> Filler(MIN_TEXT + 1)] }

OcrDocs == UNION {[1..k -> OcrPages] : k \in 1..MaxOcrPages}

\* every page is sampled
sample_pages_all(pages) == pages

\* pdf.pages[:3]
sample_pages(pages) ==
    SubSeq(pages, 1, IF Len(pages) < SAMPLE_PAGES THEN Len(pages)
                     ELSE SAMPLE_PAGES)

\* text and len(text.strip()) > 50
long_text(t) == t # <<>> /\ Len(str_strip(t)) > MIN_TEXT

\* app3.py ensure_searchable_pdf: a sampled page has enough text
looks_readable(pages) ==
    \E k \in 1..Len(sample_pages(pages)) :
        long_text(sample_pages(pages)[k].text)

OcrInit ==
    /\ TextIdle
    /\ ColorIdle
    /\ MatchIdle
    /\ OrderIdle
    /\ TableIdle
    /\ SessionIdle
    /\ DedupIdle
    /\ ocr_impl \in {"app5", "app3", "app7"}
    /\ src_pages \in OcrDocs
    /\ readable = FALSE
    /\ out_pages = <<>>
    /\ submitted = <<>>
    /\ failed = {}
    /\ ocr_pc = IF ocr_impl = "app7" THEN "ocr" ELSE "start"
    /\ ocr_i = 1

\* the page of the result made from input page i
OcrPage(i) ==
    [src |-> i, width |-> src_pages[i].width, height |-> src_pages[i].height]

\* the loop goes to the next page, or the document is saved and returned
NextOcrPage ==
    /\ ocr_i' = ocr_i + 1
    /\ ocr_pc' = IF ocr_i = Len(src_pages) THEN "returned" ELSE "ocr"

\* app5.py create_searchable_pdf: convert_from_bytes; a Poppler error
\* stops the run
ConvertApp5 ==
    /\ ocr_pc = "start"
    /\ ocr_impl = "app5"
    /\ \E ok \in BOOLEAN : ocr_pc' = IF ok THEN "ocr" ELSE "stopped"
    /\ UNCHANGED <<ocr_impl, src_pages, readable, out_pages, submitted,
                   failed, ocr_i, textVars, colorVars, matchVars, visited, tableVars,
                   sessionVars, dedupVars>>

\* app5.py create_searchable_pdf: one image; an OCR exception is caught,
\* a warning is shown and no page is inserted
OcrPageApp5 ==
    /\ ocr_pc = "ocr"
    /\ ocr_impl = "app5"
    /\ submitted' = Append(submitted, ocr_i)
    /\ \E ok \in BOOLEAN :
        IF ok
        THEN out_pages' = Append(out_pages, OcrPage(ocr_i)) /\ UNCHANGED failed
        ELSE failed' = failed \cup {ocr_i} /\ UNCHANGED out_pages
    /\ NextOcrPage
    /\ UNCHANGED <<ocr_impl, src_pages, readable, textVars, colorVars,
                   matchVars, visited, tableVars,
                   sessionVars, dedupVars>>

\* app3.py ensure_searchable_pdf: a PDF with enough extractable text on a
\* sampled page is returned as it is
CheckReadableApp3 ==
    /\ ocr_pc = "start"
    /\ ocr_impl = "app3"
    /\ readable' = looks_readable(src_pages)
    /\ IF looks_readable(src_pages)
       THEN /\ out_pages' = [k \in 1..Len(src_pages) |-> OcrPage(k)]
            /\ ocr_pc' = "returned"
       ELSE /\ ocr_pc' = "ocr"
            /\ UNCHANGED out_pages
    /\ UNCHANGED <<ocr_impl, src_pages, submitted, failed, ocr_i,
                   textVars, colorVars, matchVars, visited, tableVars,
                   sessionVars, dedupVars>>

\* one page of a loop without try/except: an OCR exception leaves the
\* function
OcrPageUncaught ==
    /\ submitted' = Append(submitted, ocr_i)
    /\ \E ok \in BOOLEAN :
        IF ok
        THEN /\ out_pages' = Append(out_pages, OcrPage(ocr_i))
             /\ NextOcrPage
             /\ UNCHANGED failed
        ELSE /\ failed' = failed \cup {ocr_i}
             /\ ocr_pc' = "aborted"
             /\ UNCHANGED <<out_pages, ocr_i>>
    /\ UNCHANGED <<ocr_impl, src_pages, readable, textVars, colorVars,
                   matchVars, visited, tableVars,
                   sessionVars, dedupVars>>

\* app3.py ensure_searchable_pdf: one page of the OCR fallback
OcrPageApp3 ==
    /\ ocr_pc = "ocr"
    /\ ocr_impl = "app3"
    /\ OcrPageUncaught

\* app7.py ocr_pdf: one page
OcrPageApp7 ==
    /\ ocr_pc = "ocr"
    /\ ocr_impl = "app7"
    /\ OcrPageUncaught

OcrNext ==
    \/ ConvertApp5
    \/ OcrPageApp5
    \/ CheckReadableApp3
    \/ OcrPageApp3
    \/ OcrPageApp7

SpecOcr == OcrInit /\ [][OcrNext]_vars

\* C15: an OCR failure on a page never aborts the normalization; when the
\* function returns after OCR, every page was submitted in turn and the
\* pages that failed are the only ones left out
C15_OcrFailureSkipsPage ==
    /\ ocr_pc # "aborted"
    /\ (ocr_pc = "returned" /\ ~readable) =>
        /\ submitted = [k \in 1..Len(src_pages) |-> k]
        /\ {out_pages[k].src : k \in 1..Len(out_pages)}
                = (1..Len(src_pages)) \ failed

\* C16: the returned document has one page for each input page, in the
\* same order and with the same width and height, also when OCR failed on
\* some page
C16_PagesPreserved ==
    ocr_pc = "returned" =>
        /\ Len(out_pages) = Len(src_pages)
        /\ \A k \in 1..Len(out_pages) :
            /\ out_pages[k].src = k
            /\ out_pages[k].width = src_pages[k].width
            /\ out_pages[k].height = src_pages[k].height

-----------------------------------------------------------------------------
(* Schedule tables: extract_schedules_and_marks of mechanical_processor.py *)
(* and app.py.  A table is a list of rows, a row a list of cells, a cell a *)
(* string or NoCell (Python's None in a table).                            *)

NoCell == <<"None">>

KEY_MARK == <<"M","A","R","K">>

KEY_SCHEDULE == <<"S","C","H","E","D","U","L","E">>

\* str(n) for a natural number n
RECURSIVE str_int(_)
str_int(n) ==
    IF n < 10 THEN <<DigitSeq[n + 1]>>
    ELSE str_int(n \div 10) \o <<DigitSeq[(n % 10) + 1]>>

\* f"COL_{idx+1}" for the column at 1-based position n
COL(n) == <<"C","O","L","_">> \o str_int(n)

\* "" if c is None else str(c).strip()
cell_str(c) == IF c = NoCell THEN <<>> ELSE str_strip(c)

clean_row(row) == [k \in 1..Len(row) |-> cell_str(row[k])]

\* no cell of the row has text
row_blank(row) == \A k \in 1..Len(row) : cell_str(row[k]) = <<>>

\* "not table or all(... for row in table)"
table_blank(table) ==
    table = <<>> \/ \A r \in 1..Len(table) : row_blank(table[r])

\* a cell of the row contains MARK, letter case ignored
row_has_mark(row) ==
    \E k \in 1..Len(row) :
        row[k] # NoCell /\ Contains(str_upper(str_strip(row[k])), KEY_MARK)

\* mechanical_processor.py: header_row_idx, 0 for None
mark_header_idx(table) ==
    IF \E r \in 1..Len(table) : row_has_mark(table[r])
    THEN CHOOSE r \in 1..Len(table) :
            /\ row_has_mark(table[r])
            /\ \A q \in 1..(r - 1) : ~row_has_mark(table[q])
    ELSE 0

\* the first row with a non-empty cell, 0 for None
first_row_idx(table) ==
    IF \E r \in 1..Len(table) : ~row_blank(table[r])
    THEN CHOOSE r \in 1..Len(table) :
            /\ ~row_blank(table[r])
            /\ \A q \in 1..(r - 1) : row_blank(table[q])
    ELSE 0

\* the cleaned rows after row r that have a non-empty cell
RECURSIVE rows_after(_, _)
rows_after(table, r) ==
    IF r >= Len(table) THEN <<>>
    ELSE (IF row_blank(table[r + 1]) THEN <<>> ELSE <<clean_row(table[r + 1])>>)
            \o rows_after(table, r + 1)

\* [str(c).strip() for c in row_up if c not in [None, ""]]
RECURSIVE name_cells(_)
name_cells(row) ==
    IF row = <<>> THEN <<>>
    ELSE (IF Head(row) \in {NoCell, <<>>} THEN <<>> ELSE <<str_strip(Head(row))>>)
            \o name_cells(Tail(row))

\* mechanical_processor.py: schedule_name, looked for in the rows above row r
RECURSIVE schedule_name_above(_, _)
schedule_name_above(table, r) ==
    IF r <= 1 THEN <<>>
    ELSE IF name_cells(table[r - 1]) # <<>> THEN name_cells(table[r - 1])[1]
    ELSE schedule_name_above(table, r - 1)

\* the header with COL_n in place of its empty names
header_safe(header) ==
    [k \in 1..Len(header) |-> IF header[k] # <<>> THEN header[k] ELSE COL(k)]

\* the dict of one data row: a name that occurs twice keeps the last cell
row_dict(names, row) ==
    [key \in Range(names) |->
        LET last == CHOOSE k \in 1..Len(names) :
                        names[k] = key /\ \A q \in (k + 1)..Len(names) : names[q] # key
        IN  IF last <= Len(row) THEN row[last] ELSE <<>>]

dict_rows(names, data_rows) ==
    [r \in 1..Len(data_rows) |-> row_dict(names, data_rows[r])]

\* the text of the page contains SCHEDULE, letter case ignored
page_has_schedule_word(page) ==
    Contains(str_upper(page_text(page.lines)), KEY_SCHEDULE)

\* "SCHEDULE" in " ".join(header_upper): the word has no space, so it is
\* in the joined string when it is in one of the names
header_has_schedule(header) ==
    \E k \in 1..Len(header) : Contains(str_upper(header[k]), KEY_SCHEDULE)

\* mechanical_processor.py: the header and the data rows of a table
header_mp(table) ==
    IF mark_header_idx(table) # 0
    THEN clean_row(table[mark_header_idx(table)])
    ELSE IF first_row_idx(table) # 0 THEN clean_row(table[first_row_idx(table)])
    ELSE <<>>

data_rows_mp(table) ==
    IF mark_header_idx(table) # 0 THEN rows_after(table, mark_header_idx(table))
    ELSE IF first_row_idx(table) # 0 THEN rows_after(table, first_row_idx(table))
    ELSE <<>>

\* mechanical_processor.py: is the table of page j turned into a record
accepted_mp(page, table) ==
    /\ ~table_blank(table)
    /\ mark_header_idx(table) # 0 \/ page_has_schedule_word(page)
    /\ header_mp(table) # <<>>
    /\ data_rows_mp(table) # <<>>
    /\ page_has_schedule_word(page) \/ header_has_schedule(header_mp(table))

\* mechanical_processor.py: the record appended to schedule_tables; the
\* header is stored as read, the row keys get COL_n
record_mp(j, t, table) ==
    [page_index |-> j, table_index_on_page |-> t,
     schedule_name |-> IF mark_header_idx(table) # 0
                       THEN schedule_name_above(table, mark_header_idx(table))
                       ELSE <<>>,
     header |-> header_mp(table),
     rows |-> dict_rows(header_safe(header_mp(table)), data_rows_mp(table))]

\* mechanical_processor.py: the values of the columns whose name contains MARK
marks_mp(table) ==
    LET header == header_mp(table)
        rows   == data_rows_mp(table)
    IN  UNION {UNION {IF /\ Contains(str_upper(header[k]), KEY_MARK)
                         /\ k <= Len(rows[r])
                         /\ str_strip(rows[r][k]) # <<>>
                      THEN {str_strip(rows[r][k])} ELSE {} :
                        k \in 1..Len(header)} : r \in 1..Len(rows)}

\* app.py: is the table of a SCHEDULE page turned into a record
accepted_app(table) ==
    /\ ~table_blank(table)
    /\ rows_after(table, first_row_idx(table)) # <<>>

\* app.py: the record appended to schedule_tables
record_app(j, t, table) ==
    LET header == header_safe(clean_row(table[first_row_idx(table)]))
    IN  [page_index |-> j, table_index_on_page |-> t,
         header |-> header,
         rows |-> dict_rows(header, rows_after(table, first_row_idx(table)))]

\* app.py: the marks the pattern finds at the start of the data cells
marks_app(table) ==
    LET rows == rows_after(table, first_row_idx(table))
    IN  UNION {UNION {IF rows[r][k] # <<>>
                      THEN extract_mark_cell_app(rows[r][k]) ELSE {} :
                        k \in 1..Len(rows[r])} : r \in 1..Len(rows)}

\* mechanical_processor1.py: "for c in row if c", "if r[i]", "any(c for c in
\* r)": a cell that is neither None nor the empty string
truthy(c) == c # NoCell /\ c # <<>>

\* mechanical_processor1.py: any("MARK" in str(c).upper() for c in row if c)
row_has_mark_mp1(row) ==
    \E k \in 1..Len(row) :
        truthy(row[k]) /\ Contains(str_upper(row[k]), KEY_MARK)

\* mechanical_processor1.py: header_row_idx, 0 for None
mark_header_idx_mp1(table) ==
    IF \E r \in 1..Len(table) : row_has_mark_mp1(table[r])
    THEN CHOOSE r \in 1..Len(table) :
            /\ row_has_mark_mp1(table[r])
            /\ \A q \in 1..(r - 1) : ~row_has_mark_mp1(table[q])
    ELSE 0

\* mechanical_processor1.py: header; str(c).strip() if c else ""
header_mp1(table) == clean_row(table[mark_header_idx_mp1(table)])

\* mechanical_processor1.py: the rows after row r that have a truthy cell,
\* each as the dict of its stripped cells
RECURSIVE rows_mp1(_, _, _)
rows_mp1(names, table, r) ==
    IF r >= Len(table) THEN <<>>
    ELSE (IF \E k \in 1..Len(table[r + 1]) : truthy(table[r + 1][k])
          THEN <<row_dict(names, clean_row(table[r + 1]))>> ELSE <<>>)
            \o rows_mp1(names, table, r + 1)

\* mechanical_processor1.py: is the table turned into a record
accepted_mp1(table) == table # <<>> /\ mark_header_idx_mp1(table) # 0

\* mechanical_processor1.py: the record appended to schedule_tables
record_mp1(j, t, table) ==
    [page_index |-> j, table_index |-> t,
     header |-> header_mp1(table),
     rows |-> rows_mp1(header_safe(header_mp1(table)), table,
                       mark_header_idx_mp1(table))]

MaxTablePages == 2

TableMark == << <<<<"M","A","R","K">>, <<"Q","T","Y">>>>, <<<<"A","C","-","1">>, <<"2">>>> >>

TableBlank == << <<NoCell, <<>>>>, <<<<" ">>>> >>

TableTag == << <<<<"T","A","G">>, <<"Q","T","Y">>>>, <<<<"E","F","-","2">>, <<"1">>>> >>

TableHeaderOnly == << <<<<"M","A","R","K">>, <<"Q","T","Y">>>>, <<NoCell, <<>>>> >>

TableGap == << <<<<"M","a","r","k">>, <<>>, <<"Q","T","Y">>>>, <<<<" ","A","C","-","2">>>> >>

\* a row of spaces between two data rows
TableSpaces == << <<<<"M","A","R","K">>, <<"Q","T","Y">>>>, <<<<"A","C","-","1">>, <<"2">>>>, <<<<" ">>, <<" "," ">>>>, <<<<"P","U","M","P">>, <<"E","F","-","2">>>> >>

\* two columns of one name, and a column named like the placeholder of
\* the empty first column
TableDup == << <<<<>>, <<"Q","T","Y">>, <<"Q","T","Y">>, <<"C","O","L","_","1">>>>, <<<<"A","C","-","1">>, <<"1">>, <<"2">>, <<"3">>>> >>

TableTitle == << <<<<"F","A","N"," ","S","C","H","E","D","U","L","E">>, NoCell>>, <<<<"M","A","R","K">>, <<"C","F","M">>>>, <<<<"E","F","-","2">>, <<"1","0","0">>>> >>

\* the pages of a schedule document: the text lines, the tables, and
\* whether extract_tables raises on the page
TablePages ==
    { [lines |-> <<<<"F","A","N"," ","S","C","H","E","D","U","L","E">>>>, tables |-> <<TableMark, TableBlank>>, raises |-> FALSE],
      [lines |-> <<<<"N","O","T","E","S">>>>, tables |-> <<TableMark>>, raises |-> FALSE],
      [lines |-> <<<<"S","C","H","E","D","U","L","E">>>>, tables |-> <<TableTag, TableGap>>, raises |-> FALSE],
      [lines |-> <<<<"N","O","T","E","S">>>>, tables |-> <<TableTag, TableTitle>>, raises |-> FALSE],
      [lines |-> <<<<"s","c","h","e","d","u","l","e">>>>, tables |-> <<TableHeaderOnly, TableMark>>, raises |-> FALSE],
      [lines |-> <<>>, tables |-> <<>>, raises |-> FALSE],
      [lines |-> <<<<"S","C","H","E","D","U","L","E","S">>, <<"A","H","-","3">>>>, tables |-> <<TableTitle, TableSpaces, TableDup>>, raises |-> FALSE],
      [lines |-> <<<<"S","C","H","E","D","U","L","E">>>>, tables |-> <<TableMark>>, raises |-> TRUE] }

TableDocs == UNION {[1..k -> TablePages] : k \in 1..MaxTablePages}

TableInit ==
    /\ TextIdle
    /\ ColorIdle
    /\ MatchIdle
    /\ OrderIdle
    /\ OcrIdle
    /\ SessionIdle
    /\ DedupIdle
    /\ tbl_impl \in {"mp", "app", "mp1"}
    /\ tbl_doc \in TableDocs
    /\ tbl_pc = "page"
    /\ tbl_page = 1
    /\ tbl_index = 0
    /\ schedule_tables = <<>>
    /\ table_marks = {}

\* the page loop goes on, or the function returns
NextTablePage ==
    /\ tbl_index' = 0
    /\ IF tbl_page < Len(tbl_doc)
       THEN tbl_page' = tbl_page + 1 /\ tbl_pc' = "page"
       ELSE tbl_pc' = "returned" /\ UNCHANGED tbl_page

\* the table loop goes on, or the page is done
NextTable ==
    IF tbl_index < Len(tbl_doc[tbl_page].tables)
    THEN tbl_index' = tbl_index + 1 /\ tbl_pc' = "table" /\ UNCHANGED tbl_page
    ELSE NextTablePage

\* mechanical_processor.py: a page is read; extract_tables is called
\* without try/except
OpenPageMp ==
    /\ tbl_pc = "page"
    /\ tbl_impl = "mp"
    /\ IF tbl_doc[tbl_page].raises
       THEN tbl_pc' = "crashed" /\ UNCHANGED <<tbl_page, tbl_index>>
       ELSE NextTable
    /\ UNCHANGED <<tbl_impl, tbl_doc, schedule_tables, table_marks,
                   textVars, colorVars, matchVars, visited, ocrVars,
                   sessionVars, dedupVars>>

\* app.py: a page is read; a page without SCHEDULE is passed over, on the
\* others extract_tables is called without try/except
OpenPageApp ==
    /\ tbl_pc = "page"
    /\ tbl_impl = "app"
    /\ IF ~page_has_schedule_word(tbl_doc[tbl_page]) THEN NextTablePage
       ELSE IF tbl_doc[tbl_page].raises
       THEN tbl_pc' = "crashed" /\ UNCHANGED <<tbl_page, tbl_index>>
       ELSE NextTable
    /\ UNCHANGED <<tbl_impl, tbl_doc, schedule_tables, table_marks,
                   textVars, colorVars, matchVars, visited, ocrVars,
                   sessionVars, dedupVars>>

\* mechanical_processor1.py: a page is read; the marks the pattern finds in
\* its text are declared, then extract_tables is called without try/except
OpenPageMp1 ==
    /\ tbl_pc = "page"
    /\ tbl_impl = "mp1"
    /\ IF tbl_doc[tbl_page].raises
       THEN tbl_pc' = "crashed" /\ UNCHANGED <<tbl_page, tbl_index>>
       ELSE NextTable
    /\ table_marks' = table_marks
            \cup extract_marks_findall(page_text(tbl_doc[tbl_page].lines))
    /\ UNCHANGED <<tbl_impl, tbl_doc, schedule_tables,
                   textVars, colorVars, matchVars, visited, ocrVars,
                   sessionVars, dedupVars>>

\* mechanical_processor.py: one table of the page
TableMp ==
    /\ tbl_pc = "table"
    /\ tbl_impl = "mp"
    /\ LET page  == tbl_doc[tbl_page]
           table == page.tables[tbl_index]
       IN  IF accepted_mp(page, table)
           THEN /\ schedule_tables' =
                    Append(schedule_tables, record_mp(tbl_page, tbl_index, table))
                /\ table_marks' = table_marks \cup marks_mp(table)
           ELSE UNCHANGED <<schedule_tables, table_marks>>
    /\ NextTable
    /\ UNCHANGED <<tbl_impl, tbl_doc, textVars, colorVars, matchVars,
                   visited, ocrVars,
                   sessionVars, dedupVars>>

\* app.py: one table of a SCHEDULE page
TableApp ==
    /\ tbl_pc = "table"
    /\ tbl_impl = "app"
    /\ LET table == tbl_doc[tbl_page].tables[tbl_index]
       IN  IF accepted_app(table)
           THEN /\ schedule_tables' =
                    Append(schedule_tables, record_app(tbl_page, tbl_index, table))
                /\ table_marks' = table_marks \cup marks_app(table)
           ELSE UNCHANGED <<schedule_tables, table_marks>>
    /\ NextTable
    /\ UNCHANGED <<tbl_impl, tbl_doc, textVars, colorVars, matchVars,
                   visited, ocrVars,
                   sessionVars, dedupVars>>

\* mechanical_processor1.py: one table of the page
TableMp1 ==
    /\ tbl_pc = "table"
    /\ tbl_impl = "mp1"
    /\ LET table == tbl_doc[tbl_page].tables[tbl_index]
       IN  IF accepted_mp1(table)
           THEN schedule_tables' =
                    Append(schedule_tables, record_mp1(tbl_page, tbl_index, table))
           ELSE UNCHANGED schedule_tables
    /\ NextTable
    /\ UNCHANGED <<tbl_impl, tbl_doc, table_marks, textVars, colorVars,
                   matchVars, visited, ocrVars, sessionVars, dedupVars>>

TableNext ==
    \/ OpenPageMp
    \/ OpenPageApp
    \/ OpenPageMp1
    \/ TableMp
    \/ TableApp
    \/ TableMp1

SpecTable == TableInit /\ [][TableNext]_vars

-----------------------------------------------------------------------------
(* Properties of the schedule extractor, checked under SpecTable *)

\* table t of page j was turned into a record
Emitted(j, t) ==
    \E n \in 1..Len(schedule_tables) :
        /\ schedule_tables[n].page_index = j
        /\ IF tbl_impl = "mp1" THEN schedule_tables[n].table_index = t
           ELSE schedule_tables[n].table_index_on_page = t

\* the tables of the document, as (page, table) positions
TablePositions ==
    UNION {{<<j, t>> : t \in 1..Len(tbl_doc[j].tables)} : j \in 1..Len(tbl_doc)}

\* the extractor that runs turns table t of page j into a record
AcceptedAt(j, t) ==
    IF tbl_impl = "mp" THEN accepted_mp(tbl_doc[j], tbl_doc[j].tables[t])
    ELSE IF tbl_impl = "mp1" THEN accepted_mp1(tbl_doc[j].tables[t])
    ELSE page_has_schedule_word(tbl_doc[j]) /\ accepted_app(tbl_doc[j].tables[t])

\* the marks the extractor that runs takes from a table
MarksOf(table) ==
    IF tbl_impl = "mp" THEN marks_mp(table)
    ELSE IF tbl_impl = "mp1" THEN {}
    ELSE marks_app(table)

\* the table has a row with MARK and a row with text after it
HasMarkHeaderAndData(table) ==
    /\ mark_header_idx(table) # 0
    /\ rows_after(table, mark_header_idx(table)) # <<>>

\* C17: when the extractor has returned, a table without a MARK row on a
\* page without SCHEDULE has no record, and a table with a MARK header row
\* and a non-empty data row has a record and its MARK cells are declared,
\* whether the page text has SCHEDULE or not
C17_TableExclusion ==
    tbl_pc = "returned" =>
        \A <<j, t>> \in TablePositions :
            LET table == tbl_doc[j].tables[t]
            IN  /\ (mark_header_idx(table) = 0
                        /\ ~page_has_schedule_word(tbl_doc[j]))
                    => ~Emitted(j, t)
                /\ HasMarkHeaderAndData(table) =>
                    /\ Emitted(j, t)
                    /\ MarksOf(table) \subseteq table_marks

\* C18: no record has an empty column name in its header, and the keys of
\* every row of a record are exactly the names of its header
C18_HeaderAndRowKeys ==
    \A n \in 1..Len(schedule_tables) :
        LET rec == schedule_tables[n]
        IN  /\ \A k \in 1..Len(rec.header) : rec.header[k] # <<>>
            /\ \A r \in 1..Len(rec.rows) :
                DOMAIN rec.rows[r] = Range(rec.header)

\* C20: the extractor never stops on a page where table extraction
\* raises: it returns, and the records of the other pages are there
C20_PageFailureSkipped ==
    /\ tbl_pc # "crashed"
    /\ tbl_pc = "returned" =>
        \A <<j, t>> \in TablePositions :
            (~tbl_doc[j].raises /\ AcceptedAt(j, t)) => Emitted(j, t)

-----------------------------------------------------------------------------
(* The session-gated front ends: app7.py and output_highlighted/app.py.
   Streamlit runs the whole script again on every event of the page; the
   values of st.session_state outlive the script runs of a session. *)

\* the events of a session that are looked at
MaxEvents == 3

\* the em dash (U+2014) and the en dash (U+2013), one character each
EM_DASH == "U+2014"

EN_DASH == "U+2013"

\* text.replace(em dash, "-").replace(en dash, "-")
normalize_text(s) == str_replace(str_replace(s, EM_DASH, Hyphen), EN_DASH, Hyphen)

\* app7.py extract_marks_from_text: the text is normalized, then scanned
extract_marks_normalized(s) == extract_marks_from_text(normalize_text(s))

\* if cell: None and "" are skipped
truthy_cells(tables) ==
    UNION {UNION {{c \in Range(row) : c # NoCell /\ c # <<>>} :
                    row \in Range(tbl)} : tbl \in Range(tables)}

\* app7.py extract_schedules_and_marks: the text of every page and every
\* cell of every table is scanned
marks_app7(pages) ==
    Sorted(UNION {extract_marks_normalized(t) :
                    t \in UNION {{page_text(pg.lines)}
                                    \cup truthy_cells(pg.tables) :
                                 pg \in Range(pages)}})

\* output_highlighted/app.py extract_schedules_and_marks: the cells of the
\* pages whose text has SCHEDULE, matched from their first character
marks_oh(pages) ==
    Sorted(UNION {IF page_has_schedule_word(pg)
                  THEN UNION {extract_mark_cell_app(str_strip(c)) :
                                    c \in truthy_cells(pg.tables)}
                  ELSE {} : pg \in Range(pages)})

session_marks(i, pages) ==
    IF i = "app7" THEN marks_app7(pages) ELSE marks_oh(pages)

\* app7.py / output_highlighted/app.py mark_type:
\* re.match(r'^([A-Z]{1,4})', mark), else mark.split("-")[0].upper()
mark_type_app7(mark) ==
    LET m == LeadingRun(mark, UpperLetters, 4)
    IN  IF m # <<>> THEN str_upper(m) ELSE str_upper(SplitHyphenFirst(mark))

\* app7.py / output_highlighted/app.py get_plan_label
get_plan_label_app7(page) ==
    LET plans == lines_with(non_empty(strip_all(page)), KEY_PLAN)
    IN  IF plans # <<>> THEN plans[1] ELSE None

\* list(set(rects)) over the three variants of the mark
session_rects(page, mark) ==
    Range(search_all(page, Sorted(search_variants(mark))))

\* build_type_color_map([mark_type(m) for m in marks])
session_color_map(marks) ==
    EnumerateColors(
        Sorted({mark_type_app7(marks[k]) : k \in 1..Len(marks)}),
        palette_app1)

\* the row highlight_pdf_and_collect appends for one (page, mark) pair
session_row(name, pages, marks, p, k) ==
    [file_name     |-> name,
     plan_label    |-> get_plan_label_app7(pages[p].lines),
     page_number   |-> p,
     mark          |-> marks[k],
     mark_type     |-> mark_type_app7(marks[k]),
     count_on_page |-> Cardinality(session_rects(pages[p].lines, marks[k])),
     color         |-> session_color_map(marks)[mark_type_app7(marks[k])]]

\* highlight_pdf_and_collect: rows, page by page and mark by mark; a pair
\* without a box adds no row
RECURSIVE collect_rows(_, _, _, _, _)
collect_rows(name, pages, marks, p, k) ==
    IF p > Len(pages) THEN <<>>
    ELSE IF k > Len(marks) THEN collect_rows(name, pages, marks, p + 1, 1)
    ELSE (IF session_rects(pages[p].lines, marks[k]) = {} THEN <<>>
          ELSE <<session_row(name, pages, marks, p, k)>>)
            \o collect_rows(name, pages, marks, p, k + 1)

\* highlight_pdf_and_collect: the highlight annotations of the saved PDF
session_annots(pages, marks) ==
    UNION {UNION {{<<p, r, session_color_map(marks)[mark_type_app7(marks[k])]>> :
                        r \in session_rects(pages[p].lines, marks[k])} :
                    k \in 1..Len(marks)} : p \in 1..Len(pages)}

\* master_json: the rows without their file name, under the file name
json_record(row) ==
    [plan_label    |-> row.plan_label,
     page_number   |-> row.page_number,
     mark          |-> row.mark,
     mark_type     |-> row.mark_type,
     count_on_page |-> row.count_on_page,
     color         |-> row.color]

master_json_of(name, rows) ==
    [file_name |-> name,
     records   |-> [k \in 1..Len(rows) |-> json_record(rows[k])]]

\* what the processing of the file f, with the marks found in it, leaves in
\* st.session_state
state_after(f, marks) ==
    LET rows == collect_rows(f.name, f.pages, marks, 1, 1)
    IN  [processed       |-> TRUE,
         master_df       |-> rows,
         master_json     |-> master_json_of(f.name, rows),
         highlighted_pdf |-> session_annots(f.pages, marks),
         original_pdf    |-> f.pages,
         file_name       |-> f.name]

\* one processing of the file f by the front end i
processed_state(i, f) == state_after(f, session_marks(i, f.pages))

\* st.session_state before a file was processed: processed is False and
\* the other keys are not there, written here as empty values
fresh_state ==
    [processed       |-> FALSE,
     master_df       |-> <<>>,
     master_json     |-> master_json_of(<<>>, <<>>),
     highlighted_pdf |-> {},
     original_pdf    |-> <<>>,
     file_name       |-> <<>>]

\* name.rsplit('.', 1)[0]: the name before its last dot
RECURSIVE last_index_of(_, _, _)
last_index_of(s, c, i) ==
    IF i = 0 THEN 0 ELSE IF s[i] = c THEN i ELSE last_index_of(s, c, i - 1)

rsplit_dot_first(name) ==
    IF last_index_of(name, ".", Len(name)) = 0 THEN name
    ELSE Slice(name, 1, last_index_of(name, ".", Len(name)))

\* the output block: the table, the JSON, and the zip behind the download
\* button, all read from st.session_state
output_of(st) ==
    [kind      |-> "results",
     dataframe |-> st.master_df,
     json      |-> st.master_json,
     zip       |-> [input_name  |-> <<"i","n","p","u","t","/">> \o st.file_name,
                    input       |-> st.original_pdf,
                    output_name |-> <<"o","u","t","p","u","t","/">>
                                        \o rsplit_dot_first(st.file_name)
                                        \o <<"_","h","i","g","h","l","i","g","h","t","e","d",".","p","d","f">>,
                    output      |-> st.highlighted_pdf,
                    csv         |-> st.master_df,
                    json        |-> st.master_json],
     zip_name  |-> rsplit_dot_first(st.file_name)
                        \o <<"_","r","e","s","u","l","t","s",".","z","i","p">>]

\* a script run that shows no results: the page is empty below the
\* uploader ("none"), st.error was called before st.stop ("error"), or the
\* OCR layer raised ("exception")
no_output(kind) ==
    [kind      |-> kind,
     dataframe |-> <<>>,
     json      |-> master_json_of(<<>>, <<>>),
     zip       |-> [input_name |-> <<>>, input |-> <<>>, output_name |-> <<>>,
                    output |-> {}, csv |-> <<>>,
                    json |-> master_json_of(<<>>, <<>>)],
     zip_name  |-> <<>>]

\* the uploader without a file
NoFile == [name |-> <<>>, pages |-> <<>>, ocr_raises |-> FALSE]

FilePlan ==
    [lines |-> << <<"M","E","C","H","A","N","I","C","A","L"," ","P","L","A","N">>,
                  <<"A","C","-","1"," ","A","C"," ","1">> >>,
     tables |-> <<>>]

FileSchedule == [lines |-> << <<"F","A","N"," ","S","C","H","E","D","U","L","E">> >>, tables |-> <<TableMark>>]

FileTags == [lines |-> << <<"S","C","H","E","D","U","L","E">>, <<"E","F","-","2">> >>, tables |-> <<TableTag>>]

FileNotes == [lines |-> << <<"N","O","T","E","S">> >>, tables |-> <<>>]

FileText == [lines |-> << <<"R","O","O","F"," ","P","L","A","N">>, <<"E","F",EM_DASH,"2"," ","e","f","-","2">> >>, tables |-> <<>>]

\* the files a user uploads: the name, the pages of the searchable text
\* and their tables, and whether the OCR layer raises on the file
SessionFiles ==
    { [name |-> <<"a",".","p","d","f">>, pages |-> <<FileSchedule, FilePlan>>, ocr_raises |-> FALSE],
      [name |-> <<"b",".","p","d","f">>, pages |-> <<FileTags>>, ocr_raises |-> FALSE],
      [name |-> <<"n","o","t","e","s">>, pages |-> <<FileNotes>>, ocr_raises |-> FALSE],
      [name |-> <<"t",".","v","2",".","p","d","f">>, pages |-> <<FileText>>, ocr_raises |-> FALSE],
      [name |-> <<"x",".","p","d","f">>, pages |-> <<FileSchedule>>, ocr_raises |-> TRUE] }

SessionInit ==
    /\ TextIdle
    /\ ColorIdle
    /\ MatchIdle
    /\ OrderIdle
    /\ OcrIdle
    /\ TableIdle
    /\ DedupIdle
    /\ ses_impl \in {"app7", "oh"}
    /\ uploaded_file = NoFile
    /\ session_state = fresh_state
    /\ shown = no_output("none")
    /\ events = <<>>

\* one run of the script with the file up in the uploader
ScriptRun(up) ==
    /\ uploaded_file' = up
    /\ IF up # NoFile /\ ~session_state.processed
       THEN IF ses_impl = "app7" /\ up.ocr_raises
            THEN /\ session_state' = session_state
                 /\ shown' = no_output("exception")
            ELSE LET marks == session_marks(ses_impl, up.pages)
                 IN  IF marks = <<>>
                     THEN /\ session_state' = session_state
                          /\ shown' = no_output("error")
                     ELSE /\ session_state' = state_after(up, marks)
                          /\ shown' = output_of(session_state')
       ELSE /\ session_state' = session_state
            /\ shown' = IF session_state.processed
                        THEN output_of(session_state)
                        ELSE no_output("none")
    /\ UNCHANGED <<ses_impl, textVars, colorVars, matchVars, visited,
                   ocrVars, tableVars, dedupVars>>

\* the user puts a file in the uploader
UploadFile ==
    /\ Len(events) < MaxEvents
    /\ \E f \in SessionFiles :
        /\ f # uploaded_file
        /\ events' = Append(events, f.name)
        /\ ScriptRun(f)

\* the user takes the file out of the uploader
RemoveFile ==
    /\ Len(events) < MaxEvents
    /\ uploaded_file # NoFile
    /\ events' = Append(events, <<"r","e","m","o","v","e">>)
    /\ ScriptRun(NoFile)

\* any other event of the page, the download button among them
Rerun ==
    /\ Len(events) < MaxEvents
    /\ events' = Append(events, <<"r","e","r","u","n">>)
    /\ ScriptRun(uploaded_file)

SessionNext == UploadFile \/ RemoveFile \/ Rerun

SpecSession == SessionInit /\ [][SessionNext]_vars

\* C19: in the session-gated front ends, after any sequence of upload and
\* rerun events, the results on the page (table, JSON, zip with the
\* highlighted PDF) are those computed from the file that is in the
\* uploader; a different file uploaded after a processed one is processed
\* anew.
C19_ResultsOfCurrentUpload ==
    (shown.kind = "results" /\ uploaded_file # NoFile) =>
        shown = output_of(processed_state(ses_impl, uploaded_file))

-----------------------------------------------------------------------------
(* Deduplication of the boxes of one page.  The coordinates of a box are
   floats in the source; here they are integers counting tenths of a
   point, so that two boxes can differ by less than one point. *)

\* the boxes the searches of one page return
MaxBoxes == 3

\* the runs of the matcher on the same boxes
MaxDedupRuns == 2

\* round(x) of a float with one decimal: to the nearest integer, a half to
\* the even neighbour
round_py(t) ==
    LET q == t \div 10
        r == t % 10
    IN  IF r < 5 THEN q
        ELSE IF r > 5 THEN q + 1
        ELSE IF q % 2 = 0 THEN q ELSE q + 1

\* app6.py: rect_key = (round(inst.x0), round(inst.y0), round(inst.x1),
\* round(inst.y1))
rect_key(inst) ==
    <<round_py(inst[1]), round_py(inst[2]), round_py(inst[3]),
      round_py(inst[4])>>

\* the boxes a search returns: an occurrence, the same occurrence drawn a
\* second time 0.2 points to the right, one drawn 0.5 points to the right,
\* and an occurrence elsewhere on the page
BoxCatalogue ==
    { <<10, 10, 30, 20>>, <<12, 10, 32, 20>>, <<15, 10, 35, 20>>,
      <<100, 10, 130, 20>> }

BoxLists == UNION {[1..k -> BoxCatalogue] : k \in 0..MaxBoxes}

DedupInit ==
    /\ TextIdle
    /\ ColorIdle
    /\ MatchIdle
    /\ OrderIdle
    /\ OcrIdle
    /\ TableIdle
    /\ SessionIdle
    /\ dd_impl \in {"app", "app6"}
    /\ dd_rects \in BoxLists
    /\ dd_pc = "start"
    /\ dd_i = 1
    /\ dd_keys = {}
    /\ dd_annots = <<>>
    /\ dd_count = 0
    /\ dd_prev = 0
    /\ dd_runs = 1

dedupRest ==
    <<textVars, colorVars, matchVars, visited, ocrVars, tableVars,
      sessionVars>>

\* app.py highlight_pdf on one (page, mark) pair: the boxes of all variants
\* are deduplicated by equality, annotated, and their number is counted
DedupApp ==
    /\ dd_impl = "app"
    /\ dd_pc = "start"
    /\ IF dd_rects = <<>>
       THEN UNCHANGED <<dd_annots, dd_count>>
       ELSE /\ dd_annots' = unique_rects(dd_rects)
            /\ dd_count' = dd_count + Len(unique_rects(dd_rects))
    /\ dd_pc' = "done"
    /\ UNCHANGED <<dd_impl, dd_rects, dd_i, dd_keys, dd_prev, dd_runs,
                   dedupRest>>

\* app6.py ocr_and_highlight_aggressive on one instance: an instance whose
\* rounded key was seen on the page is passed over, any other is
\* annotated and recorded
DedupApp6 ==
    /\ dd_impl = "app6"
    /\ dd_pc = "start"
    /\ IF dd_i > Len(dd_rects)
       THEN /\ dd_pc' = "done"
            /\ UNCHANGED <<dd_i, dd_keys, dd_annots, dd_count>>
       ELSE /\ dd_pc' = "start"
            /\ dd_i' = dd_i + 1
            /\ IF rect_key(dd_rects[dd_i]) \in dd_keys
               THEN UNCHANGED <<dd_keys, dd_annots, dd_count>>
               ELSE /\ dd_keys' = dd_keys \cup {rect_key(dd_rects[dd_i])}
                    /\ dd_annots' = Append(dd_annots, dd_rects[dd_i])
                    /\ dd_count' = dd_count + 1
    /\ UNCHANGED <<dd_impl, dd_rects, dd_prev, dd_runs, dedupRest>>

\* the matcher is run again on the same document: the document is opened
\* anew and the counts start from nothing
DedupAgain ==
    /\ dd_pc = "done"
    /\ dd_runs < MaxDedupRuns
    /\ dd_runs' = dd_runs + 1
    /\ dd_prev' = dd_count
    /\ dd_pc' = "start"
    /\ dd_i' = 1
    /\ dd_keys' = {}
    /\ dd_annots' = <<>>
    /\ dd_count' = 0
    /\ UNCHANGED <<dd_impl, dd_rects, dedupRest>>

DedupNext == DedupApp \/ DedupApp6 \/ DedupAgain

SpecDedup == DedupInit /\ [][DedupNext]_vars

\* the rounded coordinate cells of the boxes returned on the page
CellsOf(rects) == {rect_key(r) : r \in Range(rects)}

\* C21: for a page and a mark, the number of annotations and the count
\* recorded equal the number of distinct boxes of all variants, where a
\* box returned twice and two boxes of one rounded coordinate cell count
\* once; a second run on the same input gives the same count.
C21_DistinctBoxesOnce ==
    dd_pc = "done" =>
        /\ dd_count = Cardinality(CellsOf(dd_rects))
        /\ Len(dd_annots) = Cardinality(CellsOf(dd_rects))
        /\ dd_runs > 1 => dd_count = dd_prev

-----------------------------------------------------------------------------
(* The strings the highlight loops search a page for, for one mark *)

\* app.py highlight_pdf: an empty mark is passed over, any other is
\* searched in its three variants
queries_app(mark) == IF mark = <<>> THEN {} ELSE search_variants(mark)

\* mechanical_processor1.py highlight_pdf_and_count: every variant of
\* build_search_variants is searched
queries_mp1(mark) == build_search_variants(mark)

\* mechanical_processor.py highlight_pdf_and_count: the mark is searched;
\* without a box and with a hyphen in the mark, alt = mark.replace("-", "-")
\* is searched, which is the mark again
queries_mp(mark) ==
    IF mark = <<>> THEN {} ELSE {mark, str_replace(mark, "-", Hyphen)}

Query(name, result) ==
    /\ op = "none"
    /\ op' = name
    /\ queried' = result
    /\ UNCHANGED <<text, marks_set, type_out, colorVars, matchVars, otherVars>>

QueryApp == Query("queries_app", queries_app(text))

QueryMp1 == Query("queries_mp1", queries_mp1(text))

QueryMp == Query("queries_mp", queries_mp(text))

QueryNext == QueryApp \/ QueryMp1 \/ QueryMp

SpecQuery == TextInit /\ [][QueryNext]_vars

\* C22: for every mark, the strings searched on a page are exactly the
\* mark, the mark with each hyphen replaced by one space, and the mark with
\* each hyphen removed; a mark without a hyphen gives the single string.
C22_ThreeVariantsExactly ==
    (op # "none" /\ text # <<>>) =>
        /\ queried = {text, str_replace(text, "-", <<" ">>),
                      str_replace(text, "-", <<>>)}
        /\ IndexOf(text, "-") = 0 => queried = {text}

-----------------------------------------------------------------------------
(* Properties of the readability check, under SpecOcr *)

\* one of the first three pages has more than 50 characters of text once
\* trimmed
EarlyText ==
    \E k \in 1..3 :
        /\ k <= Len(src_pages)
        /\ src_pages[k].text # <<>>
        /\ Len(str_strip(src_pages[k].text)) > 50

\* the document as it was handed in
InputPages == [k \in 1..Len(src_pages) |-> OcrPage(k)]

\* C23: ensure_searchable_pdf looks at the first 3 pages only.  If one of
\* them has more than 50 characters of trimmed text, the input is returned
\* unchanged and no page goes to OCR, whatever the later pages hold;
\* otherwise, also when only a page after the third has text, the pages go
\* to OCR and a run that returns has submitted every page.
C23_FirstThreePagesDecide ==
    (ocr_impl = "app3" /\ ocr_pc # "start") =>
        /\ readable = EarlyText
        /\ EarlyText =>
            /\ ocr_pc = "returned"
            /\ submitted = <<>>
            /\ out_pages = InputPages
        /\ ~EarlyText =>
            /\ ocr_pc \in {"ocr", "returned", "aborted"}
            /\ ocr_pc = "returned" =>
                submitted = [k \in 1..Len(src_pages) |-> k]

\* a document whose only text is on its fourth page went through OCR
C23_Witness ==
    /\ ocr_impl = "app3"
    /\ Len(src_pages) = 4
    /\ long_text(src_pages[4].text)
    /\ ~EarlyText
    /\ ocr_pc = "returned"
    /\ Len(submitted) = 4

\* C24: during OCR normalization every input page is submitted to the OCR
\* collaborator exactly once: in page order, a failed page is not tried
\* again, no page is submitted twice, and when the normalization ends no
\* page was left out.
C24_EachPageOnce ==
    /\ submitted = [k \in 1..Len(submitted) |-> k]
    /\ (ocr_pc \in {"returned", "aborted"} /\ ~readable) =>
        Len(submitted) = Len(src_pages)

-----------------------------------------------------------------------------
(* Properties of the header, the rows and the marks of the records, under
   SpecTable *)

\* the table a record was made from
TableOf(rec) ==
    tbl_doc[rec.page_index].tables[
        IF tbl_impl = "mp1" THEN rec.table_index ELSE rec.table_index_on_page]

\* the row the header is to be taken from: the first row with MARK, and the
\* first row with text when there is none
HeaderRowOf(table) ==
    IF mark_header_idx(table) # 0 THEN mark_header_idx(table)
    ELSE first_row_idx(table)

\* C25: the header of every record is the first row of its table that has
\* a cell containing MARK, also when rows with text come before it; the
\* first row with text is the header only when no row has MARK and the page
\* text has SCHEDULE.
C25_HeaderIsFirstMarkRow ==
    \A n \in 1..Len(schedule_tables) :
        LET rec   == schedule_tables[n]
            table == TableOf(rec)
        IN  /\ header_safe(rec.header)
                = header_safe(clean_row(table[HeaderRowOf(table)]))
            /\ mark_header_idx(table) = 0
                => page_has_schedule_word(tbl_doc[rec.page_index])

\* the row the extractor that runs takes the header from
ChosenHeaderRow(table) ==
    IF tbl_impl = "mp" THEN HeaderRowOf(table)
    ELSE IF tbl_impl = "mp1" THEN mark_header_idx_mp1(table)
    ELSE first_row_idx(table)

\* C26: the rows of a record are the rows after the header that have a
\* cell with text once cleaned, in their order: a row whose cells are all
\* None, empty or white space is dropped, and no row mapping has only
\* empty values.
C26_BlankRowsDropped ==
    \A n \in 1..Len(schedule_tables) :
        LET rec   == schedule_tables[n]
            table == TableOf(rec)
            kept  == rows_after(table, ChosenHeaderRow(table))
        IN  /\ Len(rec.rows) = Len(kept)
            /\ \A r \in 1..Len(rec.rows) :
                /\ r <= Len(kept) =>
                    rec.rows[r] = row_dict(header_safe(rec.header), kept[r])
                /\ \E key \in DOMAIN rec.rows[r] : rec.rows[r][key] # <<>>

\* the columns of the record's header whose name contains MARK
MarkColumns(header) ==
    {k \in 1..Len(header) : Contains(str_upper(header[k]), KEY_MARK)}

\* the trimmed cells with text of the MARK columns of the data rows
MarkColumnValues(header, rows) ==
    {str_strip(rows[r][k]) : r \in 1..Len(rows), k \in MarkColumns(header)}
        \ {<<>>}

\* C27: when the header of a table has a column whose name contains MARK,
\* the marks declared from the table are the trimmed cells with text of
\* that column, as they are written, whether they fit the mark pattern or
\* not; the cells of the other columns declare nothing.  A table without
\* such a column declares what its extractor takes from it.
C27_MarkColumnLiteral ==
    (tbl_pc = "returned" /\ tbl_impl # "mp1") =>
        table_marks =
            UNION {LET rec   == schedule_tables[n]
                       table == TableOf(rec)
                       rows  == rows_after(table, ChosenHeaderRow(table))
                   IN  IF MarkColumns(rec.header) # {}
                       THEN MarkColumnValues(rec.header, rows)
                       ELSE MarksOf(table) :
                   n \in 1..Len(schedule_tables)}

\* the data rows the extractor that runs keeps, cleaned, in their order
KeptRows(table) ==
    LET idx == {q \in (ChosenHeaderRow(table) + 1)..Len(table) :
                    IF tbl_impl = "mp1"
                    THEN \E k \in 1..Len(table[q]) : truthy(table[q][k])
                    ELSE ~row_blank(table[q])}
    IN  [r \in 1..Cardinality(idx) |->
            clean_row(table[CHOOSE q \in idx :
                                Cardinality({p \in idx : p < q}) = r - 1])]

\* C30: no cell of a data row is lost in its row mapping: for every column
\* of the header, the value under the name of the column is the cell of
\* the row in that column (the empty string when the row is shorter), also
\* when two columns have one name or a column is named like the
\* placeholder COL_n of an empty one.
C30_NoCellLost ==
    \A n \in 1..Len(schedule_tables) :
        LET rec   == schedule_tables[n]
            names == header_safe(rec.header)
            kept  == KeptRows(TableOf(rec))
        IN  /\ Len(rec.rows) = Len(kept)
            /\ \A r \in 1..Len(kept) :
                    \A i \in 1..Len(names) :
                        rec.rows[r][names[i]]
                            = IF i <= Len(kept[r]) THEN kept[r][i] ELSE <<>>

-----------------------------------------------------------------------------
(* The plan label of a page, as a function of the text of the page *)

\* the lines of a page text that are looked at
MaxPlanLines == 3

\* text.splitlines() for a text whose only line break is "\n"
RECURSIVE str_splitlines(_)
str_splitlines(s) ==
    IF s = <<>> THEN <<>>
    ELSE IF IndexOf(s, "\n") = 0 THEN <<s>>
    ELSE <<Slice(s, 1, IndexOf(s, "\n"))>>
            \o str_splitlines(SubSeq(s, IndexOf(s, "\n") + 1, Len(s)))

\* mechanical_processor.py get_plan_type: the keys tried after MECHANICAL
PLAN_KEYS_mp == <<PLAN_KEYS[1], PLAN_KEYS[3], PLAN_KEYS[4]>>

RECURSIVE first_by_key_mp(_, _)
first_by_key_mp(plan_lines, k) ==
    IF k > Len(PLAN_KEYS_mp) THEN plan_lines[1]
    ELSE IF lines_with(plan_lines, PLAN_KEYS_mp[k]) # <<>>
         THEN lines_with(plan_lines, PLAN_KEYS_mp[k])[1]
    ELSE first_by_key_mp(plan_lines, k + 1)

\* mechanical_processor.py get_plan_type
get_plan_type_mp(page) ==
    LET plan_lines == strip_all(lines_with(page, KEY_PLAN))
        mech_lines == lines_with(plan_lines, KEY_MECHANICAL)
    IN  IF mech_lines # <<>> THEN mech_lines[1]
        ELSE IF plan_lines = <<>> THEN None
        ELSE first_by_key_mp(plan_lines, 1)

\* the lines a page text is put together from
PlanLines ==
    { <<"S","I","T","E"," ","P","L","A","N">>,
      <<" ","F","l","o","o","r"," ","p","l","a","n"," ">>,
      <<"M","E","C","H","A","N","I","C","A","L"," ","P","L","A","N">>,
      <<"N","O","T","E","S">>,
      <<" ">> }

PlanTexts ==
    {page_text(p) : p \in UNION {[1..k -> PlanLines] : k \in 0..MaxPlanLines}}

PlanInit ==
    /\ text \in PlanTexts
    /\ op = "none"
    /\ marks_set = {}
    /\ type_out = <<>>
    /\ queried = {}
    /\ ColorIdle
    /\ MatchIdle
    /\ RestIdle

PlanLabelApp == Classify("get_plan_label_app", get_plan_label_app(str_splitlines(text)))

PlanLabelApp3 == Classify("get_plan_label_app3", get_plan_label_app3(str_splitlines(text)))

PlanTypeMp == Classify("get_plan_type_mp", get_plan_type_mp(str_splitlines(text)))

PlanNext == PlanLabelApp \/ PlanLabelApp3 \/ PlanTypeMp

SpecPlan == PlanInit /\ [][PlanNext]_vars

\* the trimmed lines of the page that contain PLAN, in page order
PlanLinesOf(s) == lines_with(strip_all(str_splitlines(s)), KEY_PLAN)

\* C28: the plan label of a page is the first trimmed line with both PLAN
\* and MECHANICAL when there is one, otherwise the first line with PLAN in
\* page order, and none exactly when no line has PLAN.
C28_PlanLabelChoice ==
    op # "none" =>
        /\ lines_with(PlanLinesOf(text), KEY_MECHANICAL) # <<>>
            => type_out = lines_with(PlanLinesOf(text), KEY_MECHANICAL)[1]
        /\ (lines_with(PlanLinesOf(text), KEY_MECHANICAL) = <<>>
                /\ PlanLinesOf(text) # <<>>)
            => type_out = PlanLinesOf(text)[1]
        /\ type_out = None <=> PlanLinesOf(text) = <<>>

-----------------------------------------------------------------------------
(* The two aggregates of a matching run against each other (SpecMatch) *)

\* the sum of inner[m] over the marks m of set ms whose type is t
RECURSIVE TypeSum(_, _, _)
TypeSum(inner, ms, t) ==
    IF ms = {} THEN 0
    ELSE LET m == CHOOSE x \in ms : TRUE
         IN  (IF MarkTypeOf(impl, m) = t THEN inner[m] ELSE 0)
                + TypeSum(inner, ms \ {m}, t)

\* the types of the marks counted on plan p
TypesOn(p) == {MarkTypeOf(impl, m) : m \in DOMAIN plan_mark_counts[p]}

\* C29: the per-mark and the per-type aggregate have the same plan keys,
\* and the count of type t on plan p is the sum of the counts on p of the
\* marks whose type is t
C29_TypeCountsAreMarkSums ==
    /\ DOMAIN plan_type_counts = DOMAIN plan_mark_counts
    /\ \A p \in DOMAIN plan_mark_counts :
        /\ DOMAIN plan_type_counts[p] = TypesOn(p)
        /\ \A t \in TypesOn(p) :
            plan_type_counts[p][t] =
                TypeSum(plan_mark_counts[p], DOMAIN plan_mark_counts[p], t)

\* a finished run counted two marks of one type on one plan
C29_Witness ==
    /\ pc = "done"
    /\ \E p \in DOMAIN plan_mark_counts :
        \E m1, m2 \in DOMAIN plan_mark_counts[p] :
            /\ m1 # m2
            /\ MarkTypeOf(impl, m1) = MarkTypeOf(impl, m2)

====
